---- MODULE Spec2Model ----
(***************************************************************************)
(* Pathfinder: the random connected weighted-graph generator (graph.js)    *)
(* and the pathfinding algorithm suite (algorithms.js), batch and          *)
(* animated.                                                               *)
(*                                                                         *)
(* Conventions.  A JS array is a sequence (index k of the array is index   *)
(* k+1 of the sequence); the array `nodes` is a function on 0..n-1 so that *)
(* nodes[id] reads as in the source.  A JS Set is a sequence without       *)
(* repetition in insertion order (the order a for..of visits it in).  A JS *)
(* object used as a map from node ids is a function on the node ids.       *)
(***************************************************************************)
EXTENDS Integers, Sequences, FiniteSets, TLC

VARIABLES
    nodes,      \* the Graph's nodes: id -> [id, x, y, neighbors]
    edges,      \* the Graph's edges: sequence of [from, to, weight]
    startNode,  \* the Graph's start node id
    endNode,    \* the Graph's end node id
    call,       \* the last batch call: [alg, result]
    runs,       \* the animated runs: run id -> private working state
    gen,        \* generateGraph's position and locals
    ui          \* main.js's module variables (the page's tabs)

vars == <<nodes, edges, startNode, endNode, call, runs, gen, ui>>

(***************************************************************************)
(* Values of the language.                                                 *)
(***************************************************************************)
\* JS Infinity: larger than every number the algorithms compute; it is only
\* ever compared, never added to (a node is expanded only once its distance
\* is finite).
Infinity == 1000000
\* JS null for a node id, a parent or a distance (all of which are >= 0).
Null == -1

SeqHas(q, v) == \E i \in 1..Len(q) : q[i] = v
SetAdd(q, v) == IF SeqHas(q, v) THEN q ELSE Append(q, v)
SetDelete(q, v) == SelectSeq(q, LAMBDA z : z # v)
Last(q) == q[Len(q)]
ButLast(q) == SubSeq(q, 1, Len(q) - 1)
IdSeq(ns) == [k \in 1..Cardinality(DOMAIN ns) |-> k - 1]
Abs(a) == IF a < 0 THEN 0 - a ELSE a

\* Math.sqrt on a perfect square.  The coordinates the model draws keep every
\* squared distance it takes a root of a perfect square, so no rounding is
\* modelled; on any other argument the CHOOSE is undefined and TLC stops.
RECURSIVE RootBetween(_, _, _)
RootBetween(n, lo, hi) ==
    IF lo >= hi THEN lo
    ELSE LET mid == (lo + hi + 1) \div 2
         IN  IF mid * mid <= n THEN RootBetween(n, mid, hi)
             ELSE RootBetween(n, lo, mid - 1)

MaxRoot == 2000
Sqrt(n) ==
    LET r == RootBetween(n, 0, MaxRoot)
    IN  IF r * r = n THEN r ELSE CHOOSE x \in {} : TRUE

(***************************************************************************)
(* graph.js: Node                                                          *)
(***************************************************************************)
Node(id, x, y) == [id |-> id, x |-> x, y |-> y, neighbors |-> <<>>]

addNeighbor(ns, id, neighborId, weight) ==
    [ns EXCEPT ![id].neighbors = Append(@, [id |-> neighborId, weight |-> weight])]

\* edges.push(e); nodes[e.from].addNeighbor(e.to, w); nodes[e.to].addNeighbor(e.from, w)
AddEdgeToNodes(ns, e) ==
    addNeighbor(addNeighbor(ns, e.from, e.to, e.weight), e.to, e.from, e.weight)

RECURSIVE AddEdgesToNodes(_, _, _)
AddEdgesToNodes(ns, es, k) ==
    IF k > Len(es) THEN ns
    ELSE AddEdgesToNodes(AddEdgeToNodes(ns, es[k]), es, k + 1)

(***************************************************************************)
(* algorithms.js: shared utilities                                         *)
(***************************************************************************)
euclideanDistance(node1, node2) ==
    LET dx == node1.x - node2.x
        dy == node1.y - node2.y
    IN  Sqrt(dx * dx + dy * dy)

\* A variant in which a pair without an adjacency entry counts as Infinity.
RECURSIVE FindNeighborWeightOrInfinity(_, _, _)
FindNeighborWeightOrInfinity(nbrs, nextNodeId, k) ==
    IF k > Len(nbrs) THEN Infinity
    ELSE IF nbrs[k].id = nextNodeId THEN nbrs[k].weight
    ELSE FindNeighborWeightOrInfinity(nbrs, nextNodeId, k + 1)

\* neighbors.find(n => n.id === nextNodeId): the first matching entry's
\* weight; a missing entry adds nothing to the total.
RECURSIVE FindNeighborWeight(_, _, _)
FindNeighborWeight(nbrs, nextNodeId, k) ==
    IF k > Len(nbrs) THEN 0
    ELSE IF nbrs[k].id = nextNodeId THEN nbrs[k].weight
    ELSE FindNeighborWeight(nbrs, nextNodeId, k + 1)

RECURSIVE PathWeightFrom(_, _, _)
PathWeightFrom(path, ns, i) ==
    IF i > Len(path) - 1 THEN 0
    ELSE FindNeighborWeight(ns[path[i]].neighbors, path[i + 1], 1)
         + PathWeightFrom(path, ns, i + 1)

\* Faulty variant: the loop stops one pair early (i < path.length - 2).
calculatePathWeightShort(path, ns) ==
    PathWeightFrom(SubSeq(path, 1, Len(path) - 1), ns, 1)

calculatePathWeight(path, ns) == PathWeightFrom(path, ns, 1)

\* The cap of reconstructPath's walk.
PathCap == 1000

ParentOf(parent, current) ==
    IF current \in DOMAIN parent THEN parent[current] ELSE Null

\* The first n values `current` takes: current, parent[current], ...
RECURSIVE Orbit(_, _, _)
Orbit(parent, current, n) ==
    IF n = 0 THEN <<>>
    ELSE <<current>> \o Orbit(parent, ParentOf(parent, current), n - 1)

\* The while loop: current is unshifted onto path and replaced by its parent
\* until it is null or path is longer than the cap.  Among the first
\* |parent| + 2 values of current either null occurs or a value recurs; in the
\* second case the values go round the cycle from then on, which gives the
\* value at every later step without walking the steps one by one.
ReconstructWalk(parent, path, current) ==
    LET size == Cardinality(DOMAIN parent) + 2
        orbit == Orbit(parent, current, size)
        ends == \E i \in 1..size : orbit[i] = Null
        firstNull == CHOOSE i \in 1..size :
                        /\ orbit[i] = Null
                        /\ \A j \in 1..(i - 1) : orbit[j] # Null
        again == CHOOSE j \in 1..size :
                    /\ \E i \in 1..(j - 1) : orbit[i] = orbit[j]
                    /\ \A k \in 1..(j - 1) :
                          \A i \in 1..(k - 1) : orbit[i] # orbit[k]
        first == CHOOSE i \in 1..(again - 1) : orbit[i] = orbit[again]
        At(n) == IF n <= size THEN orbit[n]
                 ELSE orbit[first + ((n - first) % (again - first))]
        room == PathCap + 1 - Len(path)
        steps == IF ends /\ firstNull - 1 < room THEN firstNull - 1 ELSE room
    IN  [k \in 1..steps |-> At(steps + 1 - k)] \o path

\* Faulty variant: the walk's result is returned without the check that it starts at
\* the start node.
reconstructPathUnchecked(parent, s, e) == ReconstructWalk(parent, <<>>, e)

reconstructPath(parent, s, e) ==
    LET path == ReconstructWalk(parent, <<>>, e)
    IN  IF path[1] # s THEN <<>> ELSE path

Result(path, distance, visited) ==
    [path |-> path, distance |-> distance, visitedNodes |-> visited]

(***************************************************************************)
(* algorithms.js: the minimum scan all frontier selections share, written  *)
(* as the source writes it: a strict < against the running minimum, which  *)
(* starts at Infinity, so the first of several equal minima wins and a     *)
(* node whose key is Infinity is never selected.                           *)
(***************************************************************************)
RECURSIVE ScanMin(_, _, _, _, _)
ScanMin(q, key, k, minNode, minKey) ==
    IF k > Len(q) THEN <<minNode, minKey>>
    ELSE IF key[q[k]] < minKey THEN ScanMin(q, key, k + 1, q[k], key[q[k]])
    ELSE ScanMin(q, key, k + 1, minNode, minKey)

(***************************************************************************)
(* algorithms.js: dijkstra                                                 *)
(***************************************************************************)
DijkstraInit(ns, s) ==
    [distances |-> [i \in DOMAIN ns |-> IF i = s THEN 0 ELSE Infinity],
     parent    |-> [i \in DOMAIN ns |-> Null],
     visited   |-> <<>>,
     unvisited |-> IdSeq(ns)]

\* Faulty variant: the first unvisited node with a finite distance is taken, not the
\* one with the least distance.
DijkstraMinFirstFinite(st) ==
    LET m == ScanMin(st.unvisited,
                     [i \in DOMAIN st.distances |->
                         IF st.distances[i] < Infinity THEN 0 ELSE Infinity],
                     1, Null, Infinity)
    IN  <<m[1], IF m[1] = Null THEN Infinity ELSE st.distances[m[1]]>>

DijkstraMin(st) == ScanMin(st.unvisited, st.distances, 1, Null, Infinity)

RECURSIVE DijkstraRelax(_, _, _, _)
DijkstraRelax(st, nbrs, k, minNode) ==
    IF k > Len(nbrs) THEN st
    ELSE LET neighbor == nbrs[k]
             newDist == st.distances[minNode] + neighbor.weight
         IN  IF ~SeqHas(st.visited, neighbor.id) /\ newDist < st.distances[neighbor.id]
             THEN DijkstraRelax([st EXCEPT !.distances[neighbor.id] = newDist,
                                           !.parent[neighbor.id] = minNode],
                                nbrs, k + 1, minNode)
             ELSE DijkstraRelax(st, nbrs, k + 1, minNode)

RECURSIVE DijkstraLoop(_, _, _)
DijkstraLoop(ns, e, st) ==
    IF Len(st.unvisited) = 0 THEN st
    ELSE LET m == DijkstraMin(st)
             minNode == m[1]
         IN  IF minNode = Null \/ m[2] = Infinity THEN st
             ELSE LET st1 == [st EXCEPT !.visited = SetAdd(@, minNode),
                                        !.unvisited = SetDelete(@, minNode)]
                  IN  IF minNode = e THEN st1
                      ELSE DijkstraLoop(ns, e,
                               DijkstraRelax(st1, ns[minNode].neighbors, 1, minNode))

\* Faulty variant: an unreached goal's distance is returned as it stands (Infinity),
\* not as null.
DijkstraResultRaw(st, s, e) ==
    Result(reconstructPath(st.parent, s, e), st.distances[e], st.visited)

DijkstraResult(st, s, e) ==
    Result(reconstructPath(st.parent, s, e),
           IF st.distances[e] = Infinity THEN Null ELSE st.distances[e],
           st.visited)

dijkstra(ns, s, e) == DijkstraResult(DijkstraLoop(ns, e, DijkstraInit(ns, s)), s, e)

(***************************************************************************)
(* algorithms.js: aStar                                                    *)
(***************************************************************************)
AStarInit(ns, s, e) ==
    [gScore  |-> [i \in DOMAIN ns |-> IF i = s THEN 0 ELSE Infinity],
     fScore  |-> [i \in DOMAIN ns |->
                    IF i = s THEN euclideanDistance(ns[s], ns[e]) ELSE Infinity],
     parent  |-> [i \in DOMAIN ns |-> Null],
     visited |-> <<>>,
     openSet |-> <<s>>]

AStarMin(st) == ScanMin(st.openSet, st.fScore, 1, Null, Infinity)

RECURSIVE AStarRelax(_, _, _, _, _, _)
AStarRelax(ns, e, st, nbrs, k, minNode) ==
    IF k > Len(nbrs) THEN st
    ELSE LET neighbor == nbrs[k]
             tentativeGScore == st.gScore[minNode] + neighbor.weight
             inOpen == SeqHas(st.openSet, neighbor.id)
         IN  IF SeqHas(st.visited, neighbor.id)
                \/ (inOpen /\ tentativeGScore >= st.gScore[neighbor.id])
             THEN AStarRelax(ns, e, st, nbrs, k + 1, minNode)
             ELSE AStarRelax(ns, e,
                      [st EXCEPT !.openSet = SetAdd(@, neighbor.id),
                                 !.parent[neighbor.id] = minNode,
                                 !.gScore[neighbor.id] = tentativeGScore,
                                 !.fScore[neighbor.id] =
                                     tentativeGScore
                                     + euclideanDistance(ns[neighbor.id], ns[e])],
                      nbrs, k + 1, minNode)

AStarFound(ns, s, e, st) ==
    LET path == reconstructPath(st.parent, s, e)
    IN  Result(path, calculatePathWeight(path, ns), st.visited)

RECURSIVE AStarLoop(_, _, _, _)
AStarLoop(ns, s, e, st) ==
    IF Len(st.openSet) = 0 THEN Result(<<>>, Null, st.visited)
    ELSE LET minNode == AStarMin(st)[1]
         IN  IF minNode = Null THEN Result(<<>>, Null, st.visited)
             ELSE IF minNode = e THEN AStarFound(ns, s, e, st)
             ELSE LET st1 == [st EXCEPT !.openSet = SetDelete(@, minNode),
                                        !.visited = SetAdd(@, minNode)]
                  IN  AStarLoop(ns, s, e,
                          AStarRelax(ns, e, st1, ns[minNode].neighbors, 1, minNode))

aStar(ns, s, e) == AStarLoop(ns, s, e, AStarInit(ns, s, e))

(***************************************************************************)
(* algorithms.js: bfs                                                      *)
(***************************************************************************)
BfsInit(ns, s) ==
    [queue     |-> <<[id |-> s, cost |-> 0]>>,
     visited   |-> <<>>,
     parent    |-> [i \in DOMAIN ns |-> Null],
     distances |-> [i \in DOMAIN ns |-> IF i = s THEN 0 ELSE Infinity]]

\* Faulty variant: every unvisited neighbour is re-parented and enqueued, whether or
\* not the new cost improves on the recorded one.
RECURSIVE BfsRelaxAlways(_, _, _, _, _)
BfsRelaxAlways(st, nbrs, k, currentId, cost) ==
    IF k > Len(nbrs) THEN st
    ELSE LET neighbor == nbrs[k]
             newCost == cost + neighbor.weight
         IN  IF ~SeqHas(st.visited, neighbor.id)
             THEN BfsRelaxAlways([st EXCEPT !.distances[neighbor.id] = newCost,
                                            !.parent[neighbor.id] = currentId,
                                            !.queue = Append(@, [id |-> neighbor.id,
                                                                 cost |-> newCost])],
                                 nbrs, k + 1, currentId, cost)
             ELSE BfsRelaxAlways(st, nbrs, k + 1, currentId, cost)

RECURSIVE BfsRelax(_, _, _, _, _)
BfsRelax(st, nbrs, k, currentId, cost) ==
    IF k > Len(nbrs) THEN st
    ELSE LET neighbor == nbrs[k]
             newCost == cost + neighbor.weight
         IN  IF ~SeqHas(st.visited, neighbor.id) /\ newCost < st.distances[neighbor.id]
             THEN BfsRelax([st EXCEPT !.distances[neighbor.id] = newCost,
                                      !.parent[neighbor.id] = currentId,
                                      !.queue = Append(@, [id |-> neighbor.id,
                                                           cost |-> newCost])],
                           nbrs, k + 1, currentId, cost)
             ELSE BfsRelax(st, nbrs, k + 1, currentId, cost)

BfsFound(ns, s, e, st) ==
    LET path == reconstructPath(st.parent, s, e)
    IN  Result(path, calculatePathWeight(path, ns), st.visited)

RECURSIVE BfsLoop(_, _, _, _)
BfsLoop(ns, s, e, st) ==
    IF Len(st.queue) = 0 THEN Result(<<>>, Null, st.visited)
    ELSE LET head == Head(st.queue)
             st0 == [st EXCEPT !.queue = Tail(@)]
         IN  IF SeqHas(st.visited, head.id) THEN BfsLoop(ns, s, e, st0)
             ELSE LET st1 == [st0 EXCEPT !.visited = SetAdd(@, head.id)]
                  IN  IF head.id = e THEN BfsFound(ns, s, e, st1)
                      ELSE BfsLoop(ns, s, e,
                               BfsRelax(st1, ns[head.id].neighbors, 1,
                                        head.id, head.cost))

bfs(ns, s, e) == BfsLoop(ns, s, e, BfsInit(ns, s))

(***************************************************************************)
(* algorithms.js: dfs                                                      *)
(***************************************************************************)
DfsInit(s) ==
    [stack        |-> <<[id |-> s, path |-> <<s>>, cost |-> 0]>>,
     visited      |-> <<>>,
     bestPath     |-> <<>>,
     bestDistance |-> Infinity]

RECURSIVE DfsPush(_, _, _, _)
DfsPush(st, nbrs, k, top) ==
    IF k > Len(nbrs) THEN st
    ELSE LET neighbor == nbrs[k]
         IN  IF ~SeqHas(st.visited, neighbor.id)
             THEN DfsPush([st EXCEPT !.stack =
                              Append(@, [id   |-> neighbor.id,
                                         path |-> Append(top.path, neighbor.id),
                                         cost |-> top.cost + neighbor.weight])],
                          nbrs, k + 1, top)
             ELSE DfsPush(st, nbrs, k + 1, top)

DfsGoal(ns, st, top) ==
    LET distance == calculatePathWeight(top.path, ns)
    IN  IF distance < st.bestDistance
        THEN [st EXCEPT !.bestPath = top.path, !.bestDistance = distance]
        ELSE st

DfsResult(st) ==
    Result(st.bestPath,
           IF st.bestDistance = Infinity THEN Null ELSE st.bestDistance,
           st.visited)

RECURSIVE DfsLoop(_, _, _)
DfsLoop(ns, e, st) ==
    IF Len(st.stack) = 0 THEN st
    ELSE LET top == Last(st.stack)
             st0 == [st EXCEPT !.stack = ButLast(@)]
         IN  IF SeqHas(st.visited, top.id) THEN DfsLoop(ns, e, st0)
             ELSE LET st1 == [st0 EXCEPT !.visited = SetAdd(@, top.id)]
                  IN  IF top.id = e THEN DfsLoop(ns, e, DfsGoal(ns, st1, top))
                      ELSE DfsLoop(ns, e,
                               DfsPush(st1, ns[top.id].neighbors, 1, top))

dfs(ns, s, e) == DfsResult(DfsLoop(ns, e, DfsInit(s)))

(***************************************************************************)
(* algorithms.js: greedyBestFirst                                          *)
(***************************************************************************)
GreedyInit(ns, s) ==
    [openSet |-> <<s>>,
     visited |-> <<>>,
     parent  |-> [i \in DOMAIN ns |-> Null]]

Heuristic(ns, e) == [i \in DOMAIN ns |-> euclideanDistance(ns[i], ns[e])]

GreedyMin(ns, e, st) == ScanMin(st.openSet, Heuristic(ns, e), 1, Null, Infinity)

\* Faulty variant: every neighbour is re-parented to the node being expanded,
\* visited or queued already or not; only new ones join the open set.
RECURSIVE GreedyExpandReparent(_, _, _, _)
GreedyExpandReparent(st, nbrs, k, minNode) ==
    IF k > Len(nbrs) THEN st
    ELSE LET neighbor == nbrs[k]
             fresh == ~SeqHas(st.visited, neighbor.id) /\ ~SeqHas(st.openSet, neighbor.id)
         IN  GreedyExpandReparent(
                 [st EXCEPT !.parent[neighbor.id] = minNode,
                            !.openSet = IF fresh THEN SetAdd(@, neighbor.id) ELSE @],
                 nbrs, k + 1, minNode)

RECURSIVE GreedyExpand(_, _, _, _)
GreedyExpand(st, nbrs, k, minNode) ==
    IF k > Len(nbrs) THEN st
    ELSE LET neighbor == nbrs[k]
         IN  IF ~SeqHas(st.visited, neighbor.id) /\ ~SeqHas(st.openSet, neighbor.id)
             THEN GreedyExpand([st EXCEPT !.parent[neighbor.id] = minNode,
                                          !.openSet = SetAdd(@, neighbor.id)],
                               nbrs, k + 1, minNode)
             ELSE GreedyExpand(st, nbrs, k + 1, minNode)

GreedyFound(ns, s, e, st) ==
    LET path == reconstructPath(st.parent, s, e)
    IN  Result(path, calculatePathWeight(path, ns), st.visited)

RECURSIVE GreedyLoop(_, _, _, _)
GreedyLoop(ns, s, e, st) ==
    IF Len(st.openSet) = 0 THEN Result(<<>>, Null, st.visited)
    ELSE LET minNode == GreedyMin(ns, e, st)[1]
         IN  IF minNode = Null THEN Result(<<>>, Null, st.visited)
             ELSE LET st1 == [st EXCEPT !.openSet = SetDelete(@, minNode),
                                        !.visited = SetAdd(@, minNode)]
                  IN  IF minNode = e THEN GreedyFound(ns, s, e, st1)
                      ELSE GreedyLoop(ns, s, e,
                               GreedyExpand(st1, ns[minNode].neighbors, 1, minNode))

greedyBestFirst(ns, s, e) == GreedyLoop(ns, s, e, GreedyInit(ns, s))

(***************************************************************************)
(* The batch algorithms by name.                                           *)
(***************************************************************************)
Algorithms == {"dijkstra", "astar", "bfs", "dfs", "greedy"}

RunBatch(alg, ns, s, e) ==
    CASE alg = "dijkstra" -> dijkstra(ns, s, e)
      [] alg = "astar"    -> aStar(ns, s, e)
      [] alg = "bfs"      -> bfs(ns, s, e)
      [] alg = "dfs"      -> dfs(ns, s, e)
      [] alg = "greedy"   -> greedyBestFirst(ns, s, e)


(***************************************************************************)
(* The graphs the algorithms are run on.  A graph is built as graph.js     *)
(* builds one: nodes are created with empty adjacency lists and every edge *)
(* is pushed onto `edges` and onto both endpoints' lists.                  *)
(***************************************************************************)
\* Number of nodes of the enumerated graphs.
NumNodes == 3

\* Edge weights are integers in MinWeight..MaxWeight (calculateWeight's clamp).
MinWeight == 1
MaxWeight == 9

\* The weights the enumeration draws for an edge, and 0 for "no edge".
WeightChoices == {MinWeight, MaxWeight}

Layouts == {"line", "rect"}

\* The placements generateGraph's attempts draw from (generateNodes samples
\* positions with Math.random; the model draws one of these):
\*   "cluster"  node 0 in a corner, nodes 1..6 on a 3 x 2 grid 60 apart,
\*              nodes 7 and 8 further out, later nodes along the top;
\*   "spread"   a grid, 150 apart across and 100 apart down;
\*   "tight"    pairs of nodes 20 apart, the pairs 150 apart: every second
\*              node was placed by its 1000th sample;
\*   "far"      nodes in the corners of the padded canvas, the corners
\*              further apart than any radius the generator connects within.
GenLayouts == {"cluster", "spread", "tight", "far"}

ClusterPoints ==
    << <<60, 440>>,
       <<500, 250>>, <<560, 250>>, <<620, 250>>,
       <<500, 310>>, <<560, 310>>, <<620, 310>>,
       <<540, 90>>, <<360, 280>> >>

\* Node i's position: on a line, MIN_NODE_DISTANCE apart, or on the corners of
\* a 60 x 80 rectangle (sides and diagonal are whole numbers), or as the
\* generator's placements have it.
LayoutX(layout, i) ==
    CASE layout = "line"    -> 50 + 60 * i
      [] layout = "rect"    -> 50 + 60 * (i % 2)
      [] layout = "cluster" -> IF i < Len(ClusterPoints) THEN ClusterPoints[i + 1][1]
                               ELSE 60 + 60 * (i - Len(ClusterPoints))
      [] layout = "spread"  -> 100 + 150 * (i % 4)
      [] layout = "tight"   -> 100 + 150 * ((i \div 2) % 4)
      [] layout = "far"     -> 50 + 690 * (i % 2)
LayoutY(layout, i) ==
    CASE layout = "line"    -> 50
      [] layout = "rect"    -> 50 + 80 * ((i \div 2) % 2)
      [] layout = "cluster" -> IF i < Len(ClusterPoints) THEN ClusterPoints[i + 1][2]
                               ELSE 60
      [] layout = "spread"  -> 100 + 100 * (i \div 4)
      [] layout = "tight"   -> 100 + 20 * (i % 2) + 200 * (i \div 8)
      [] layout = "far"     -> IF (i \div 2) % 2 = 0 THEN 50 + 60 * (i \div 4)
                               ELSE 440 - 60 * (i \div 4)

\* A variant that numbers the nodes from 1.
PlacedNodesFromOne(n, layout) ==
    [i \in 0..(n - 1) |-> Node(i + 1, LayoutX(layout, i), LayoutY(layout, i))]

PlacedNodes(n, layout) ==
    [i \in 0..(n - 1) |-> Node(i, LayoutX(layout, i), LayoutY(layout, i))]

\* The pairs i < j in the order of the generator's double loop.
RECURSIVE PairsFrom(_, _, _)
PairsFrom(n, i, j) ==
    IF i >= n - 1 THEN <<>>
    ELSE IF j >= n THEN PairsFrom(n, i + 1, i + 2)
    ELSE <<<<i, j>>>> \o PairsFrom(n, i, j + 1)

PairSeq(n) == PairsFrom(n, 0, 1)

RECURSIVE EdgesOf(_, _, _)
EdgesOf(pairs, wt, k) ==
    IF k > Len(pairs) THEN <<>>
    ELSE (IF wt[k] = 0 THEN <<>>
          ELSE <<[from |-> pairs[k][1], to |-> pairs[k][2], weight |-> wt[k]]>>)
         \o EdgesOf(pairs, wt, k + 1)

\* A second pass over the same node pairs with fresh weights, as the widened
\* fallback of generateGraph makes when it reconnects nodes that already
\* have neighbours: every edge is listed once more with another weight.
Reweighted(es) ==
    [k \in 1..Len(es) |->
        [es[k] EXCEPT !.weight = MinWeight + MaxWeight - es[k].weight]]

\* The end-to-end example: nodes 0..3, edges 0-1 w2, 1-2 w3, 0-2 w6, 2-3 w1.
ExampleEdges ==
    << [from |-> 0, to |-> 1, weight |-> 2], [from |-> 1, to |-> 2, weight |-> 3],
       [from |-> 0, to |-> 2, weight |-> 6], [from |-> 2, to |-> 3, weight |-> 1] >>
ExampleNodes == AddEdgesToNodes(PlacedNodes(4, "line"), ExampleEdges, 1)

NoCall == [alg |-> "none", result |-> Result(<<>>, Null, <<>>)]

\* raceGraphData = null
NoGraph == [nodes |-> <<>>, edges |-> <<>>, startNode |-> Null, endNode |-> Null]

\* main.js's module variables as the module initialises them (graphData is
\* the graph of nodes, edges, startNode and endNode).
NoUi == [activeTab |-> "explore", raceGraphData |-> NoGraph, userPath |-> <<>>,
         optimalPath |-> <<>>, optimalDistance |-> Null, isAnimating |-> FALSE,
         animationHighlight |-> Null,
         raceStarted |-> FALSE, raceAlgoComplete |-> FALSE,
         raceAlgoDistance |-> Null, raceAnimationHighlight |-> Null]

\* generateGraph not called.
NoGen == [pc |-> "idle", requested |-> 0, nodeCount |-> 0, attempts |-> 0,
          exhausted |-> {},
          widened |-> FALSE, sampled |-> FALSE, redrawn |-> FALSE]

InitEnumerated ==
    \E wt \in [1..Len(PairSeq(NumNodes)) -> WeightChoices \cup {0}],
       layout \in Layouts, again \in BOOLEAN :
        LET es == EdgesOf(PairSeq(NumNodes), wt, 1)
            all == IF again THEN es \o Reweighted(es) ELSE es
        IN  /\ edges = all
            /\ nodes = AddEdgesToNodes(PlacedNodes(NumNodes, layout), all, 1)
            /\ startNode \in DOMAIN nodes
            /\ endNode \in DOMAIN nodes

InitExample ==
    /\ edges = ExampleEdges
    /\ nodes = ExampleNodes
    /\ startNode = 0
    /\ endNode = 3

Init ==
    /\ InitEnumerated \/ InitExample
    /\ call = NoCall
    /\ runs = <<>>
    /\ gen = NoGen
    /\ ui = NoUi

\* A variant whose visited set outlives the call: a second call of the
\* algorithm finds every node visited already.
BatchRemembering(alg) ==
    /\ call.alg \in {"none", alg}
    /\ call' = [alg |-> alg,
                result |-> IF call.alg = alg THEN Result(<<>>, Null, <<>>)
                           ELSE RunBatch(alg, nodes, startNode, endNode)]
    /\ UNCHANGED <<nodes, edges, startNode, endNode, runs, gen, ui>>

\* A batch call algorithm(nodes, startNode, endNode).  The algorithms are pure
\* and `call` keeps the last call only, so a behaviour that calls one algorithm
\* (any number of times) reaches every state a mixed sequence of calls does.
Batch(alg) ==
    /\ call.alg \in {"none", alg}
    /\ call' = [alg |-> alg, result |-> RunBatch(alg, nodes, startNode, endNode)]
    /\ UNCHANGED <<nodes, edges, startNode, endNode, runs, gen, ui>>

Next == \E alg \in Algorithms : Batch(alg)

Spec == Init /\ [][Next]_vars

(***************************************************************************)
(* The search loops of dijkstra, aStar, bfs and greedyBestFirst one        *)
(* iteration at a time.  `call` holds the running call's local variables   *)
(* (st) and whether its while loop is still running (pc); an action is one *)
(* pass through the loop body: selection, marking, goal test, relaxation.  *)
(***************************************************************************)
SteppedAlgorithms == {"dijkstra", "astar", "bfs", "greedy"}

InitSteps ==
    /\ InitEnumerated \/ InitExample
    /\ call = NoCall
    /\ runs = <<>>
    /\ gen = NoGen
    /\ ui = NoUi

\* The call: the statements before the while loop.
BeginSearch(alg) ==
    /\ call.alg = "none"
    /\ call' = [alg |-> alg, pc |-> "loop",
                st |-> CASE alg = "dijkstra" -> DijkstraInit(nodes, startNode)
                         [] alg = "astar"    -> AStarInit(nodes, startNode, endNode)
                         [] alg = "bfs"      -> BfsInit(nodes, startNode)
                         [] alg = "greedy"   -> GreedyInit(nodes, startNode)]
    /\ UNCHANGED <<nodes, edges, startNode, endNode, runs, gen, ui>>

DijkstraIteration ==
    /\ call.alg = "dijkstra" /\ call.pc = "loop"
    /\ LET st == call.st
           m == DijkstraMin(st)
           minNode == m[1]
       IN  IF Len(st.unvisited) = 0 \/ minNode = Null \/ m[2] = Infinity
           THEN call' = [call EXCEPT !.pc = "done"]
           ELSE LET st1 == [st EXCEPT !.visited = SetAdd(@, minNode),
                                      !.unvisited = SetDelete(@, minNode)]
                IN  IF minNode = endNode
                    THEN call' = [call EXCEPT !.st = st1, !.pc = "done"]
                    ELSE call' = [call EXCEPT !.st =
                             DijkstraRelax(st1, nodes[minNode].neighbors, 1, minNode)]
    /\ UNCHANGED <<nodes, edges, startNode, endNode, runs, gen, ui>>

AStarIteration ==
    /\ call.alg = "astar" /\ call.pc = "loop"
    /\ LET st == call.st
           minNode == AStarMin(st)[1]
       IN  IF Len(st.openSet) = 0 \/ minNode = Null \/ minNode = endNode
           THEN call' = [call EXCEPT !.pc = "done"]
           ELSE LET st1 == [st EXCEPT !.openSet = SetDelete(@, minNode),
                                      !.visited = SetAdd(@, minNode)]
                IN  call' = [call EXCEPT !.st =
                        AStarRelax(nodes, endNode, st1,
                                   nodes[minNode].neighbors, 1, minNode)]
    /\ UNCHANGED <<nodes, edges, startNode, endNode, runs, gen, ui>>

BfsIteration ==
    /\ call.alg = "bfs" /\ call.pc = "loop"
    /\ LET st == call.st
       IN  IF Len(st.queue) = 0 THEN call' = [call EXCEPT !.pc = "done"]
           ELSE LET head == Head(st.queue)
                    st0 == [st EXCEPT !.queue = Tail(@)]
                IN  IF SeqHas(st.visited, head.id) THEN call' = [call EXCEPT !.st = st0]
                    ELSE LET st1 == [st0 EXCEPT !.visited = SetAdd(@, head.id)]
                         IN  IF head.id = endNode
                             THEN call' = [call EXCEPT !.st = st1, !.pc = "done"]
                             ELSE call' = [call EXCEPT !.st =
                                      BfsRelax(st1, nodes[head.id].neighbors, 1,
                                               head.id, head.cost)]
    /\ UNCHANGED <<nodes, edges, startNode, endNode, runs, gen, ui>>

GreedyIteration ==
    /\ call.alg = "greedy" /\ call.pc = "loop"
    /\ LET st == call.st
           minNode == GreedyMin(nodes, endNode, st)[1]
       IN  IF Len(st.openSet) = 0 \/ minNode = Null
           THEN call' = [call EXCEPT !.pc = "done"]
           ELSE LET st1 == [st EXCEPT !.openSet = SetDelete(@, minNode),
                                      !.visited = SetAdd(@, minNode)]
                IN  IF minNode = endNode
                    THEN call' = [call EXCEPT !.st = st1, !.pc = "done"]
                    ELSE call' = [call EXCEPT !.st =
                             GreedyExpand(st1, nodes[minNode].neighbors, 1, minNode)]
    /\ UNCHANGED <<nodes, edges, startNode, endNode, runs, gen, ui>>

NextSteps ==
    \/ \E alg \in SteppedAlgorithms : BeginSearch(alg)
    \/ DijkstraIteration
    \/ AStarIteration
    \/ BfsIteration
    \/ GreedyIteration

SpecSteps == InitSteps /\ [][NextSteps]_vars

(***************************************************************************)
(* algorithms.js: the animated variants.  A run is the record of one       *)
(* invocation's local variables, together with                             *)
(*   alg, cb  the function invoked and the consumer's callbacks:           *)
(*            "none" (onStep and onComplete are null), "observe" (the      *)
(*            callbacks keep what they are handed, as main.js's do) or     *)
(*            "tamper" (onStep zeroes every entry of the distances object  *)
(*            it is handed);                                               *)
(*   pc       "suspended" at `await new Promise(...)`, "done" once the     *)
(*            promise is resolved;                                         *)
(*   cur      the node (and, for bfs and dfs, the dequeued or popped item) *)
(*            the pending onStep call is about;                            *)
(*   result   the value the promise resolves to;                           *)
(*   steps    the onStep calls made so far, each with the arguments as     *)
(*            they read when the call was made;                            *)
(*   completed  the onComplete calls made so far, each with its argument   *)
(*            and the number of onStep calls made before it.               *)
(* The only suspension point is the await in front of the onStep call, and *)
(* it is passed only when onStep is given.                                 *)
(***************************************************************************)
Callbacks == {"none", "observe", "tamper"}

NoResult == Result(<<>>, Null, <<>>)

\* A variant that yields before visited.add(minNode).
SuspendUnmarked(st, cur) ==
    [st EXCEPT !.pc = "suspended", !.cur = cur, !.visited = ButLast(@)]

\* await new Promise(resolve => setTimeout(resolve, delay))
Suspend(st, cur) == [st EXCEPT !.pc = "suspended", !.cur = cur]

\* A variant in which onComplete is not called.
FinishSilently(st, result) == [st EXCEPT !.pc = "done", !.result = result]

\* if (onComplete) onComplete(result); return result
Finish(st, result) ==
    [st EXCEPT !.pc = "done", !.result = result,
               !.completed = IF st.cb = "none" THEN @
                             ELSE Append(@, [result |-> result,
                                             after  |-> Len(st.steps)])]

\* onStep(currentNode, Array.from(visited), distances): visited is a copy, the
\* distances object is the run's own, so what the consumer writes to it the
\* run reads back.
OnStep(st) ==
    LET called == [st EXCEPT !.steps =
                      Append(@, [currentNode  |-> st.cur,
                                 visitedSoFar |-> st.visited,
                                 distances    |-> st.distances])]
    IN  IF st.cb = "tamper"
        THEN [called EXCEPT !.distances = [i \in DOMAIN st.distances |-> 0]]
        ELSE called

\* ----- dijkstraAnimated
DijkstraAnimInit(ns, s, cb) ==
    [alg |-> "dijkstra", cb |-> cb, pc |-> "running", cur |-> Null,
     result |-> NoResult, steps |-> <<>>, completed |-> <<>>,
     distances |-> [i \in DOMAIN ns |-> IF i = s THEN 0 ELSE Infinity],
     parent    |-> [i \in DOMAIN ns |-> Null],
     visited   |-> <<>>,
     unvisited |-> IdSeq(ns)]

RECURSIVE DijkstraAnimRelax(_, _, _, _)
DijkstraAnimRelax(st, nbrs, k, minNode) ==
    IF k > Len(nbrs) THEN st
    ELSE LET neighbor == nbrs[k]
             newDist == st.distances[minNode] + neighbor.weight
         IN  IF ~SeqHas(st.visited, neighbor.id) /\ newDist < st.distances[neighbor.id]
             THEN DijkstraAnimRelax([st EXCEPT !.distances[neighbor.id] = newDist,
                                               !.parent[neighbor.id] = minNode],
                                    nbrs, k + 1, minNode)
             ELSE DijkstraAnimRelax(st, nbrs, k + 1, minNode)

DijkstraAnimFinish(st, s, e) ==
    Finish(st, Result(reconstructPath(st.parent, s, e),
                      IF st.distances[e] = Infinity THEN Null ELSE st.distances[e],
                      st.visited))

RECURSIVE DijkstraAnimLoop(_, _, _, _)
RECURSIVE DijkstraAnimAfterStep(_, _, _, _)

\* From the head of the while loop to the next suspension or to the end.
DijkstraAnimLoop(ns, s, e, st) ==
    IF Len(st.unvisited) = 0 THEN DijkstraAnimFinish(st, s, e)
    ELSE LET m == ScanMin(st.unvisited, st.distances, 1, Null, Infinity)
             minNode == m[1]
         IN  IF minNode = Null \/ m[2] = Infinity THEN DijkstraAnimFinish(st, s, e)
             ELSE LET st1 == [st EXCEPT !.visited = SetAdd(@, minNode),
                                        !.unvisited = SetDelete(@, minNode),
                                        !.cur = minNode]
                  IN  IF st.cb # "none" THEN Suspend(st1, minNode)
                      ELSE DijkstraAnimAfterStep(ns, s, e, st1)

\* From behind the onStep call.
DijkstraAnimAfterStep(ns, s, e, st) ==
    IF st.cur = e THEN DijkstraAnimFinish(st, s, e)
    ELSE DijkstraAnimLoop(ns, s, e,
             DijkstraAnimRelax(st, ns[st.cur].neighbors, 1, st.cur))

\* ----- aStarAnimated
AStarAnimInit(ns, s, e, cb) ==
    [alg |-> "astar", cb |-> cb, pc |-> "running", cur |-> Null,
     result |-> NoResult, steps |-> <<>>, completed |-> <<>>,
     gScore  |-> [i \in DOMAIN ns |-> IF i = s THEN 0 ELSE Infinity],
     fScore  |-> [i \in DOMAIN ns |->
                    IF i = s THEN euclideanDistance(ns[s], ns[e]) ELSE Infinity],
     distances |-> [i \in DOMAIN ns |-> IF i = s THEN 0 ELSE Infinity],
     parent  |-> [i \in DOMAIN ns |-> Null],
     visited |-> <<>>,
     openSet |-> <<s>>]

RECURSIVE AStarAnimRelax(_, _, _, _, _, _)
AStarAnimRelax(ns, e, st, nbrs, k, minNode) ==
    IF k > Len(nbrs) THEN st
    ELSE LET neighbor == nbrs[k]
             tentativeGScore == st.gScore[minNode] + neighbor.weight
             inOpen == SeqHas(st.openSet, neighbor.id)
         IN  IF SeqHas(st.visited, neighbor.id)
                \/ (inOpen /\ tentativeGScore >= st.gScore[neighbor.id])
             THEN AStarAnimRelax(ns, e, st, nbrs, k + 1, minNode)
             ELSE AStarAnimRelax(ns, e,
                      [st EXCEPT !.openSet = SetAdd(@, neighbor.id),
                                 !.parent[neighbor.id] = minNode,
                                 !.gScore[neighbor.id] = tentativeGScore,
                                 !.distances[neighbor.id] = tentativeGScore,
                                 !.fScore[neighbor.id] =
                                     tentativeGScore
                                     + euclideanDistance(ns[neighbor.id], ns[e])],
                      nbrs, k + 1, minNode)

AStarAnimFound(ns, s, e, st) ==
    LET path == reconstructPath(st.parent, s, e)
    IN  Finish(st, Result(path, calculatePathWeight(path, ns), st.visited))

RECURSIVE AStarAnimLoop(_, _, _, _)
RECURSIVE AStarAnimAfterStep(_, _, _, _)

AStarAnimLoop(ns, s, e, st) ==
    IF Len(st.openSet) = 0 THEN Finish(st, Result(<<>>, Null, st.visited))
    ELSE LET minNode == ScanMin(st.openSet, st.fScore, 1, Null, Infinity)[1]
         IN  IF minNode = Null THEN Finish(st, Result(<<>>, Null, st.visited))
             ELSE IF minNode = e THEN AStarAnimFound(ns, s, e, st)
             ELSE LET st1 == [st EXCEPT !.openSet = SetDelete(@, minNode),
                                        !.visited = SetAdd(@, minNode),
                                        !.cur = minNode]
                  IN  IF st.cb # "none" THEN Suspend(st1, minNode)
                      ELSE AStarAnimAfterStep(ns, s, e, st1)

AStarAnimAfterStep(ns, s, e, st) ==
    AStarAnimLoop(ns, s, e,
        AStarAnimRelax(ns, e, st, ns[st.cur].neighbors, 1, st.cur))

\* ----- bfsAnimated
BfsAnimInit(ns, s, cb) ==
    [alg |-> "bfs", cb |-> cb, pc |-> "running", cur |-> Null,
     result |-> NoResult, steps |-> <<>>, completed |-> <<>>, cost |-> 0,
     queue     |-> <<[id |-> s, cost |-> 0]>>,
     visited   |-> <<>>,
     parent    |-> [i \in DOMAIN ns |-> Null],
     distances |-> [i \in DOMAIN ns |-> IF i = s THEN 0 ELSE Infinity]]

RECURSIVE BfsAnimRelax(_, _, _, _, _)
BfsAnimRelax(st, nbrs, k, currentId, cost) ==
    IF k > Len(nbrs) THEN st
    ELSE LET neighbor == nbrs[k]
             newCost == cost + neighbor.weight
         IN  IF ~SeqHas(st.visited, neighbor.id) /\ newCost < st.distances[neighbor.id]
             THEN BfsAnimRelax([st EXCEPT !.distances[neighbor.id] = newCost,
                                          !.parent[neighbor.id] = currentId,
                                          !.queue = Append(@, [id |-> neighbor.id,
                                                               cost |-> newCost])],
                               nbrs, k + 1, currentId, cost)
             ELSE BfsAnimRelax(st, nbrs, k + 1, currentId, cost)

BfsAnimFound(ns, s, e, st) ==
    LET path == reconstructPath(st.parent, s, e)
    IN  Finish(st, Result(path, calculatePathWeight(path, ns), st.visited))

RECURSIVE BfsAnimLoop(_, _, _, _)
RECURSIVE BfsAnimAfterStep(_, _, _, _)

BfsAnimLoop(ns, s, e, st) ==
    IF Len(st.queue) = 0 THEN Finish(st, Result(<<>>, Null, st.visited))
    ELSE LET head == Head(st.queue)
             st0 == [st EXCEPT !.queue = Tail(@)]
         IN  IF SeqHas(st.visited, head.id) THEN BfsAnimLoop(ns, s, e, st0)
             ELSE LET st1 == [st0 EXCEPT !.visited = SetAdd(@, head.id),
                                         !.cur = head.id, !.cost = head.cost]
                  IN  IF st.cb # "none" THEN Suspend(st1, head.id)
                      ELSE BfsAnimAfterStep(ns, s, e, st1)

BfsAnimAfterStep(ns, s, e, st) ==
    IF st.cur = e THEN BfsAnimFound(ns, s, e, st)
    ELSE BfsAnimLoop(ns, s, e,
             BfsAnimRelax(st, ns[st.cur].neighbors, 1, st.cur, st.cost))

\* ----- dfsAnimated
DfsAnimInit(ns, s, cb) ==
    [alg |-> "dfs", cb |-> cb, pc |-> "running", cur |-> Null,
     result |-> NoResult, steps |-> <<>>, completed |-> <<>>,
     top          |-> [id |-> s, path |-> <<s>>, cost |-> 0],
     stack        |-> <<[id |-> s, path |-> <<s>>, cost |-> 0]>>,
     visited      |-> <<>>,
     distances    |-> [i \in DOMAIN ns |-> IF i = s THEN 0 ELSE Infinity],
     bestPath     |-> <<>>,
     bestDistance |-> Infinity]

RECURSIVE DfsAnimPush(_, _, _, _)
DfsAnimPush(st, nbrs, k, top) ==
    IF k > Len(nbrs) THEN st
    ELSE LET neighbor == nbrs[k]
         IN  IF ~SeqHas(st.visited, neighbor.id)
             THEN DfsAnimPush([st EXCEPT !.stack =
                                  Append(@, [id   |-> neighbor.id,
                                             path |-> Append(top.path, neighbor.id),
                                             cost |-> top.cost + neighbor.weight])],
                              nbrs, k + 1, top)
             ELSE DfsAnimPush(st, nbrs, k + 1, top)

DfsAnimGoal(ns, st, top) ==
    LET distance == calculatePathWeight(top.path, ns)
    IN  IF distance < st.bestDistance
        THEN [st EXCEPT !.bestPath = top.path, !.bestDistance = distance]
        ELSE st

DfsAnimFinish(st) ==
    Finish(st, Result(st.bestPath,
                      IF st.bestDistance = Infinity THEN Null ELSE st.bestDistance,
                      st.visited))

RECURSIVE DfsAnimLoop(_, _, _, _)
RECURSIVE DfsAnimAfterStep(_, _, _, _)

DfsAnimLoop(ns, s, e, st) ==
    IF Len(st.stack) = 0 THEN DfsAnimFinish(st)
    ELSE LET top == Last(st.stack)
             st0 == [st EXCEPT !.stack = ButLast(@)]
         IN  IF SeqHas(st.visited, top.id) THEN DfsAnimLoop(ns, s, e, st0)
             ELSE LET st1 == [st0 EXCEPT !.visited = SetAdd(@, top.id),
                                         !.distances[top.id] = top.cost,
                                         !.cur = top.id, !.top = top]
                  IN  IF st.cb # "none" THEN Suspend(st1, top.id)
                      ELSE DfsAnimAfterStep(ns, s, e, st1)

DfsAnimAfterStep(ns, s, e, st) ==
    IF st.cur = e THEN DfsAnimLoop(ns, s, e, DfsAnimGoal(ns, st, st.top))
    ELSE DfsAnimLoop(ns, s, e, DfsAnimPush(st, ns[st.cur].neighbors, 1, st.top))

\* ----- greedyBestFirstAnimated
GreedyAnimInit(ns, s, cb) ==
    [alg |-> "greedy", cb |-> cb, pc |-> "running", cur |-> Null,
     result |-> NoResult, steps |-> <<>>, completed |-> <<>>,
     openSet |-> <<s>>,
     visited |-> <<>>,
     parent  |-> [i \in DOMAIN ns |-> Null],
     distances |-> [i \in DOMAIN ns |-> IF i = s THEN 0 ELSE Infinity]]

\* distances[minNode] || 0: zero for a zero entry, the entry otherwise.
RECURSIVE GreedyAnimExpand(_, _, _, _)
GreedyAnimExpand(st, nbrs, k, minNode) ==
    IF k > Len(nbrs) THEN st
    ELSE LET neighbor == nbrs[k]
             currentDist == st.distances[minNode]
         IN  IF ~SeqHas(st.visited, neighbor.id) /\ ~SeqHas(st.openSet, neighbor.id)
             THEN GreedyAnimExpand(
                      [st EXCEPT !.parent[neighbor.id] = minNode,
                                 !.distances[neighbor.id] = currentDist + neighbor.weight,
                                 !.openSet = SetAdd(@, neighbor.id)],
                      nbrs, k + 1, minNode)
             ELSE GreedyAnimExpand(st, nbrs, k + 1, minNode)

GreedyAnimFound(ns, s, e, st) ==
    LET path == reconstructPath(st.parent, s, e)
    IN  Finish(st, Result(path, calculatePathWeight(path, ns), st.visited))

RECURSIVE GreedyAnimLoop(_, _, _, _)
RECURSIVE GreedyAnimAfterStep(_, _, _, _)

GreedyAnimLoop(ns, s, e, st) ==
    IF Len(st.openSet) = 0 THEN Finish(st, Result(<<>>, Null, st.visited))
    ELSE LET minNode == ScanMin(st.openSet, Heuristic(ns, e), 1, Null, Infinity)[1]
         IN  IF minNode = Null THEN Finish(st, Result(<<>>, Null, st.visited))
             ELSE LET st1 == [st EXCEPT !.openSet = SetDelete(@, minNode),
                                        !.visited = SetAdd(@, minNode),
                                        !.cur = minNode]
                  IN  IF st.cb # "none" THEN Suspend(st1, minNode)
                      ELSE GreedyAnimAfterStep(ns, s, e, st1)

GreedyAnimAfterStep(ns, s, e, st) ==
    IF st.cur = e THEN GreedyAnimFound(ns, s, e, st)
    ELSE GreedyAnimLoop(ns, s, e,
             GreedyAnimExpand(st, ns[st.cur].neighbors, 1, st.cur))

\* ----- an animated call, up to its first suspension (or its end)
AnimStart(alg, cb, ns, s, e) ==
    CASE alg = "dijkstra" -> DijkstraAnimLoop(ns, s, e, DijkstraAnimInit(ns, s, cb))
      [] alg = "astar"    -> AStarAnimLoop(ns, s, e, AStarAnimInit(ns, s, e, cb))
      [] alg = "bfs"      -> BfsAnimLoop(ns, s, e, BfsAnimInit(ns, s, cb))
      [] alg = "dfs"      -> DfsAnimLoop(ns, s, e, DfsAnimInit(ns, s, cb))
      [] alg = "greedy"   -> GreedyAnimLoop(ns, s, e, GreedyAnimInit(ns, s, cb))

\* ----- the timer fires: onStep is called and the run goes on to its next
\* suspension (or its end)
AnimResume(st, ns, s, e) ==
    LET st1 == [OnStep(st) EXCEPT !.pc = "running"]
    IN  CASE st.alg = "dijkstra" -> DijkstraAnimAfterStep(ns, s, e, st1)
          [] st.alg = "astar"    -> AStarAnimAfterStep(ns, s, e, st1)
          [] st.alg = "bfs"      -> BfsAnimAfterStep(ns, s, e, st1)
          [] st.alg = "dfs"      -> DfsAnimAfterStep(ns, s, e, st1)
          [] st.alg = "greedy"   -> GreedyAnimAfterStep(ns, s, e, st1)

\* A variant whose distances object is one object shared by every run.
ResumeRunShared(rs, r, ns, s, e) ==
    LET st == AnimResume(rs[r], ns, s, e)
    IN  [q \in DOMAIN rs |->
            IF q = r THEN st ELSE [rs[q] EXCEPT !.distances = st.distances]]

\* Each invocation's working state is local to it: resuming run r replaces
\* run r's record and no other.
ResumeRun(rs, r, ns, s, e) == [rs EXCEPT ![r] = AnimResume(rs[r], ns, s, e)]

(***************************************************************************)
(* Animated runs over one graph, interleaved at their suspension points    *)
(* (specification SpecAnim).                                               *)
(***************************************************************************)
\* Number of animated runs started on the graph.
MaxRuns == 2

InitAnim ==
    /\ \E wt \in [1..Len(PairSeq(NumNodes)) -> WeightChoices \cup {0}] :
        LET es == EdgesOf(PairSeq(NumNodes), wt, 1)
        IN  /\ edges = es
            /\ nodes = AddEdgesToNodes(PlacedNodes(NumNodes, "line"), es, 1)
    /\ startNode = 0
    /\ endNode = NumNodes - 1
    /\ call = NoCall
    /\ runs = <<>>
    /\ gen = NoGen
    /\ ui = NoUi

StartAnimated(alg, cb) ==
    /\ Len(runs) < MaxRuns
    /\ runs' = Append(runs, AnimStart(alg, cb, nodes, startNode, endNode))
    /\ UNCHANGED <<nodes, edges, startNode, endNode, call, gen, ui>>

\* A variant that takes the neighbours off the current node's adjacency list
\* as it relaxes them (shift() in place of for..of).
TimerFiresConsuming(r) ==
    /\ runs[r].pc = "suspended"
    /\ runs' = ResumeRun(runs, r, nodes, startNode, endNode)
    /\ nodes' = [nodes EXCEPT ![runs[r].cur].neighbors = <<>>]
    /\ UNCHANGED <<edges, startNode, endNode, call, gen, ui>>

TimerFires(r) ==
    /\ runs[r].pc = "suspended"
    /\ runs' = ResumeRun(runs, r, nodes, startNode, endNode)
    /\ UNCHANGED <<nodes, edges, startNode, endNode, call, gen, ui>>

NextAnim ==
    \/ \E alg \in Algorithms, cb \in Callbacks : StartAnimated(alg, cb)
    \/ \E r \in DOMAIN runs : TimerFires(r)

SpecAnim == InitAnim /\ [][NextAnim]_vars

(***************************************************************************)
(* reconstructPath on parent maps of any shape (specification SpecPath):   *)
(* every node's entry is null or a node, cycles included.                  *)
(***************************************************************************)
InitPath ==
    /\ nodes = PlacedNodes(NumNodes, "line")
    /\ edges = <<>>
    /\ startNode \in DOMAIN nodes
    /\ endNode \in DOMAIN nodes
    /\ \E parent \in [DOMAIN nodes -> DOMAIN nodes \cup {Null}] :
          call = [alg |-> "reconstructPath", parent |-> parent,
                  returned |-> FALSE, path |-> <<>>]
    /\ runs = <<>>
    /\ gen = NoGen
    /\ ui = NoUi

ReconstructPath ==
    /\ ~call.returned
    /\ call' = [call EXCEPT !.returned = TRUE,
                            !.path = reconstructPath(call.parent, startNode, endNode)]
    /\ UNCHANGED <<nodes, edges, startNode, endNode, runs, gen, ui>>

NextPath == ReconstructPath

SpecPath == InitPath /\ [][NextPath]_vars

(***************************************************************************)
(* calculatePathWeight on any sequence of node ids (specification          *)
(* SpecWeight): paths of the graph, sequences with pairs that no adjacency *)
(* entry joins, repeated nodes, the empty and the one-node sequence.       *)
(***************************************************************************)
\* Longest sequence handed to calculatePathWeight.
MaxPathLen == 3

InitWeight ==
    /\ InitEnumerated
    /\ \E n \in 0..MaxPathLen :
          \E path \in [1..n -> 0..(NumNodes - 1)] :
              call = [alg |-> "calculatePathWeight", path |-> path,
                      returned |-> FALSE, total |-> 0]
    /\ runs = <<>>
    /\ gen = NoGen
    /\ ui = NoUi

CalculatePathWeight ==
    /\ ~call.returned
    /\ call' = [call EXCEPT !.returned = TRUE,
                            !.total = calculatePathWeight(call.path, nodes)]
    /\ UNCHANGED <<nodes, edges, startNode, endNode, runs, gen, ui>>

NextWeight == CalculatePathWeight

SpecWeight == InitWeight /\ [][NextWeight]_vars

\* Batch calls and animated runs on one graph (specification SpecRuns): the
\* graph object is handed to every call by reference.
NextRuns == Next \/ NextAnim

SpecRuns == InitAnim /\ [][NextRuns]_vars

(***************************************************************************)
(* graph.js: the generator.  Distances are Math.hypot values that the code *)
(* only compares with each other and with thresholds, or floors after a    *)
(* division; the model keeps their squares, which order the same way.      *)
(***************************************************************************)
DEFAULT_CONNECTIVITY_RADIUS == 180
WEIGHT_DIVISOR == 40
MIN_NODE_DISTANCE == 60
MAX_EDGES_PER_NODE == 5
MIN_EDGES_PER_NODE == 3
CanvasWidth == 800
CanvasHeight == 500
Padding == 50
\* maxAttempts of generateGraph
GraphMaxAttempts == 10
OverlapDistance == 30

Min2(a, b) == IF a < b THEN a ELSE b
Max2(a, b) == IF a > b THEN a ELSE b

\* calculateDistance(node1, node2), squared.
calculateDistanceSq(node1, node2) ==
    (node1.x - node2.x) * (node1.x - node2.x)
    + (node1.y - node2.y) * (node1.y - node2.y)

\* Math.random(), in hundredths: the values the model's draws take, the draw
\* counter rnd selecting one in turn.
RandomValues == <<0, 33, 66, 99>>
Seeds == 0..(Len(RandomValues) - 1)
Random(rnd) == RandomValues[(rnd % Len(RandomValues)) + 1]

\* A variant without the clamp: Math.round(adjustedWeight) is returned.
calculateWeightUnclamped(distanceSq, random) ==
    LET baseWeight == RootBetween(distanceSq, 0, MaxRoot) \div WEIGHT_DIVISOR
        adjustedWeight == baseWeight * 200 + (random * 8 + 100) * 8
    IN  (adjustedWeight + 500) \div 1000

\* calculateWeight(distance) with Math.random() = random / 100, in
\* thousandths until the rounding:
\*   baseWeight * 0.2 + (random/100 * 8 + 1) * 0.8, Math.round, clamp to 1..9.
calculateWeight(distanceSq, random) ==
    LET baseWeight == RootBetween(distanceSq, 0, MaxRoot) \div WEIGHT_DIVISOR
        adjustedWeight == baseWeight * 200 + (random * 8 + 100) * 8
    IN  Min2(MaxWeight, Max2(MinWeight, (adjustedWeight + 500) \div 1000))

\* A variant that tests the position against the node placed last only.
isValidNodePositionLastOnly(x, y, existingNodes, minDistance) ==
    \A i \in {j \in DOMAIN existingNodes : j + 1 = Cardinality(DOMAIN existingNodes)} :
        (x - existingNodes[i].x) * (x - existingNodes[i].x)
        + (y - existingNodes[i].y) * (y - existingNodes[i].y)
            >= minDistance * minDistance

isValidNodePosition(x, y, existingNodes, minDistance) ==
    \A i \in DOMAIN existingNodes :
        (x - existingNodes[i].x) * (x - existingNodes[i].x)
        + (y - existingNodes[i].y) * (y - existingNodes[i].y)
            >= minDistance * minDistance

\* generateNodes(count, canvasWidth, canvasHeight): node i is put at the first
\* sampled position that is valid, or at the 1000th sample whatever it is.
\* Every sample lies within the padded canvas.
generateNodes(count, layout) == PlacedNodes(count, layout)

\* The nodes no sample of which was valid: each lies too close to an earlier
\* node and was placed when attempts reached maxAttempts.
Exhausted(ns) ==
    {i \in DOMAIN ns :
        ~isValidNodePosition(ns[i].x, ns[i].y, [j \in 0..(i - 1) |-> ns[j]],
                             MIN_NODE_DISTANCE)}

InCanvas(ns) ==
    \A i \in DOMAIN ns :
        /\ Padding <= ns[i].x /\ ns[i].x < CanvasWidth - Padding
        /\ Padding <= ns[i].y /\ ns[i].y < CanvasHeight - Padding

\* a * a as <<high, low>> with a * a = high * 10^6 + low, for 0 <= a < 2 * 10^6
\* (the products the angle test needs exceed 32 bits).
WideSquare(a) ==
    LET a1 == a \div 1000
        a0 == a % 1000
        mid == 2 * a1 * a0
        low == (mid % 1000) * 1000 + a0 * a0
    IN  <<a1 * a1 + (mid \div 1000) + (low \div 1000000), low % 1000000>>

WideTimes3(w) == <<3 * w[1] + ((3 * w[2]) \div 1000000), (3 * w[2]) % 1000000>>

WideLess(v, w) == v[1] < w[1] \/ (v[1] = w[1] /\ v[2] < w[2])

\* angle < PI/12 or angle > PI - PI/12 for the angle between (dx1, dy1) and
\* (dx2, dy2): |cross| < tan(15 deg) * |dot| with tan(15 deg) = 2 - sqrt(3),
\* that is 2|dot| - |cross| > 0 and 3 dot^2 < (2|dot| - |cross|)^2.
Parallel(dx1, dy1, dx2, dy2) ==
    LET dot == Abs(dx1 * dx2 + dy1 * dy2)
        cross == Abs(dx1 * dy2 - dy1 * dx2)
    IN  /\ 2 * dot - cross > 0
        /\ WideLess(WideTimes3(WideSquare(dot)), WideSquare(2 * dot - cross))

edgesOverlap(n1a, n1b, n2a, n2b) ==
    IF n1a.id = n2a.id \/ n1a.id = n2b.id \/ n1b.id = n2a.id \/ n1b.id = n2b.id
    THEN FALSE
    ELSE LET dx1 == n1b.x - n1a.x
             dy1 == n1b.y - n1a.y
             dx2 == n2b.x - n2a.x
             dy2 == n2b.y - n2a.y
             minDist == Min2(Min2(calculateDistanceSq(n1a, n2a),
                                  calculateDistanceSq(n1a, n2b)),
                             Min2(calculateDistanceSq(n1b, n2a),
                                  calculateDistanceSq(n1b, n2b)))
         IN  IF (dx1 = 0 /\ dy1 = 0) \/ (dx2 = 0 /\ dy2 = 0) THEN FALSE
             ELSE /\ Parallel(dx1, dy1, dx2, dy2)
                  /\ minDist < OverlapDistance * OverlapDistance

\* The working state of connectNodesByProximity and ensureConnectivity:
\* the nodes (whose adjacency lists grow), the edges list, edgeCounts and
\* the draw counter.
\* A variant that enters the edge in the adjacency list of `from` only.
PushEdgeOneWay(st, from, to, weight) ==
    [st EXCEPT !.edges = Append(@, [from |-> from, to |-> to, weight |-> weight]),
               !.nodes = addNeighbor(@, from, to, weight),
               !.edgeCounts = [@ EXCEPT ![from] = @ + 1, ![to] = @ + 1]]

\* A variant that lists the edge without entering it in an adjacency list.
PushEdgeListOnly(st, from, to, weight) ==
    [st EXCEPT !.edges = Append(@, [from |-> from, to |-> to, weight |-> weight]),
               !.edgeCounts = [@ EXCEPT ![from] = @ + 1, ![to] = @ + 1]]

\* edges.push + addNeighbor on both ends + edgeCounts++ on both ends
PushEdge(st, from, to, weight) ==
    [st EXCEPT !.edges = Append(@, [from |-> from, to |-> to, weight |-> weight]),
               !.nodes = addNeighbor(addNeighbor(@, from, to, weight),
                                     to, from, weight),
               !.edgeCounts = [@ EXCEPT ![from] = @ + 1, ![to] = @ + 1]]

\* The double loop collecting the potential edges, one draw per edge: the
\* m-th pair within the radius gets the m-th draw from rnd on.
PotentialEdges(ns, pairs, connectivityRadius, rnd) ==
    LET within(pair) ==
            calculateDistanceSq(ns[pair[1]], ns[pair[2]])
                < connectivityRadius * connectivityRadius
        close == SelectSeq(pairs, within)
    IN  [list |-> [m \in 1..Len(close) |->
                     LET distance == calculateDistanceSq(ns[close[m][1]],
                                                         ns[close[m][2]])
                     IN  [from |-> close[m][1], to |-> close[m][2],
                          distance |-> distance,
                          weight |-> calculateWeight(distance,
                                                     Random(rnd + m - 1))]],
         rnd |-> rnd + Len(close)]

\* potentialEdges.sort((a, b) => a.distance - b.distance): stable, so entry m
\* comes after the entries that are nearer and after the earlier entries
\* that are as near.
SortByDistance(list) ==
    LET position(m) ==
            1 + Cardinality({x \in 1..Len(list) :
                               \/ list[x].distance < list[m].distance
                               \/ list[x].distance = list[m].distance /\ x < m})
    IN  [p \in 1..Len(list) |->
            list[CHOOSE m \in 1..Len(list) : position(m) = p]]

\* Phase 1, one potential edge.
AddIfAllowed(st, edge, maxEdgesPerNode) ==
    LET hasOverlap ==
            \E x \in 1..Len(st.edges) :
                edgesOverlap(st.nodes[edge.from], st.nodes[edge.to],
                             st.nodes[st.edges[x].from], st.nodes[st.edges[x].to])
    IN  IF /\ st.edgeCounts[edge.from] < maxEdgesPerNode
           /\ st.edgeCounts[edge.to] < maxEdgesPerNode
           /\ ~hasOverlap
        THEN PushEdge(st, edge.from, edge.to, edge.weight)
        ELSE st

\* Phase 1
RECURSIVE AddWithinLimit(_, _, _, _)
AddWithinLimit(st, potentialEdges, k, maxEdgesPerNode) ==
    IF k > Len(potentialEdges) THEN st
    ELSE AddWithinLimit(AddIfAllowed(st, potentialEdges[k], maxEdgesPerNode),
                        potentialEdges, k + 1, maxEdgesPerNode)

\* A variant of the scan that keeps the first candidate it meets.
RECURSIVE BestCandidateFirst(_, _, _, _, _, _, _)
BestCandidateFirst(st, i, j, connectivityRadius, maxEdgesPerNode, bestCandidate, bestDistance) ==
    IF j >= Cardinality(DOMAIN st.nodes) THEN <<bestCandidate, bestDistance>>
    ELSE LET distance == calculateDistanceSq(st.nodes[i], st.nodes[j])
             alreadyConnected ==
                 \E x \in 1..Len(st.nodes[i].neighbors) : st.nodes[i].neighbors[x].id = j
         IN  IF /\ i # j
                /\ st.edgeCounts[j] < maxEdgesPerNode
                /\ ~alreadyConnected
                /\ 4 * distance < 9 * connectivityRadius * connectivityRadius
                /\ bestCandidate = Null
             THEN BestCandidateFirst(st, i, j + 1, connectivityRadius, maxEdgesPerNode,
                                     j, distance)
             ELSE BestCandidateFirst(st, i, j + 1, connectivityRadius, maxEdgesPerNode,
                                     bestCandidate, bestDistance)

\* Phase 2, the scan for the best candidate of node i: <<bestCandidate,
\* bestDistance>>.
RECURSIVE BestCandidate(_, _, _, _, _, _, _)
BestCandidate(st, i, j, connectivityRadius, maxEdgesPerNode, bestCandidate, bestDistance) ==
    IF j >= Cardinality(DOMAIN st.nodes) THEN <<bestCandidate, bestDistance>>
    ELSE LET distance == calculateDistanceSq(st.nodes[i], st.nodes[j])
             alreadyConnected ==
                 \E x \in 1..Len(st.nodes[i].neighbors) : st.nodes[i].neighbors[x].id = j
         IN  IF /\ i # j
                /\ st.edgeCounts[j] < maxEdgesPerNode
                /\ ~alreadyConnected
                /\ 4 * distance < 9 * connectivityRadius * connectivityRadius
                /\ distance < bestDistance
             THEN BestCandidate(st, i, j + 1, connectivityRadius, maxEdgesPerNode,
                                j, distance)
             ELSE BestCandidate(st, i, j + 1, connectivityRadius, maxEdgesPerNode,
                                bestCandidate, bestDistance)

\* Phase 2, the while loop of node i.
RECURSIVE TopUp(_, _, _, _, _)
TopUp(st, i, connectivityRadius, maxEdgesPerNode, minEdgesPerNode) ==
    IF st.edgeCounts[i] >= minEdgesPerNode THEN st
    ELSE LET best == BestCandidate(st, i, 0, connectivityRadius, maxEdgesPerNode,
                                   Null, Infinity)
         IN  IF best[1] = Null THEN st
             ELSE TopUp([PushEdge(st, i, best[1],
                                  calculateWeight(best[2], Random(st.rnd)))
                            EXCEPT !.rnd = @ + 1],
                        i, connectivityRadius, maxEdgesPerNode, minEdgesPerNode)

RECURSIVE EnsureMinimum(_, _, _, _, _)
EnsureMinimum(st, i, connectivityRadius, maxEdgesPerNode, minEdgesPerNode) ==
    IF i >= Cardinality(DOMAIN st.nodes) THEN st
    ELSE EnsureMinimum(TopUp(st, i, connectivityRadius, maxEdgesPerNode,
                             minEdgesPerNode),
                       i + 1, connectivityRadius, maxEdgesPerNode, minEdgesPerNode)

\* connectNodesByProximity(nodes, connectivityRadius, maxEdgesPerNode): a new
\* edges list and new edgeCounts, whatever adjacency the nodes already carry.
connectNodesByProximity(ns, connectivityRadius, maxEdgesPerNode, minEdgesPerNode, rnd) ==
    LET n == Cardinality(DOMAIN ns)
        potential == PotentialEdges(ns, PairSeq(n), connectivityRadius, rnd)
        st0 == [nodes |-> ns, edges |-> <<>>,
                edgeCounts |-> [i \in DOMAIN ns |-> 0], rnd |-> potential.rnd]
        st1 == AddWithinLimit(st0, SortByDistance(potential.list), 1,
                              maxEdgesPerNode)
    IN  EnsureMinimum(st1, 0, connectivityRadius, maxEdgesPerNode, minEdgesPerNode)

\* The breadth-first traversal isGraphConnected and ensureConnectivity share:
\* visited grows in visiting order.
RECURSIVE VisitNeighbors(_, _, _, _)
VisitNeighbors(nbrs, k, queue, visited) ==
    IF k > Len(nbrs) THEN [queue |-> queue, visited |-> visited]
    ELSE IF ~SeqHas(visited, nbrs[k].id)
         THEN VisitNeighbors(nbrs, k + 1, Append(queue, nbrs[k].id),
                             Append(visited, nbrs[k].id))
         ELSE VisitNeighbors(nbrs, k + 1, queue, visited)

RECURSIVE Traverse(_, _, _)
Traverse(ns, queue, visited) ==
    IF queue = <<>> THEN visited
    ELSE LET r == VisitNeighbors(ns[Head(queue)].neighbors, 1, Tail(queue), visited)
         IN  Traverse(ns, r.queue, r.visited)

isGraphConnected(ns) ==
    LET n == Cardinality(DOMAIN ns)
    IN  IF n = 0 THEN FALSE
        ELSE IF n = 1 THEN TRUE
        ELSE Len(Traverse(ns, <<0>>, <<0>>)) = n

\* edgeCounts as ensureConnectivity counts them: from the edges list.
CountEdges(ns, es) ==
    [i \in DOMAIN ns |->
        Cardinality({k \in 1..Len(es) : es[k].from = i})
        + Cardinality({k \in 1..Len(es) : es[k].to = i})]

\* The connected components, in the order of their least node.
RECURSIVE Components(_, _, _, _)
Components(ns, i, visited, components) ==
    IF i >= Cardinality(DOMAIN ns) THEN components
    ELSE IF SeqHas(visited, i) THEN Components(ns, i + 1, visited, components)
    ELSE LET after == Traverse(ns, <<i>>, Append(visited, i))
             component == SubSeq(after, Len(visited) + 1, Len(after))
         IN  Components(ns, i + 1, after, Append(components, component))

\* The closest pair (id1 of comp1, id2 of comp2) both below the limit:
\* <<node1Id, node2Id, minDist>>, scanned in the order of the two loops.
RECURSIVE ClosestPair(_, _, _, _, _, _, _)
ClosestPair(st, comp1, comp2, a, b, maxEdgesPerNode, best) ==
    IF a > Len(comp1) THEN best
    ELSE IF b > Len(comp2) \/ st.edgeCounts[comp1[a]] >= maxEdgesPerNode
         THEN ClosestPair(st, comp1, comp2, a + 1, 1, maxEdgesPerNode, best)
    ELSE LET dist == calculateDistanceSq(st.nodes[comp1[a]], st.nodes[comp2[b]])
         IN  IF st.edgeCounts[comp2[b]] < maxEdgesPerNode /\ dist < best[3]
             THEN ClosestPair(st, comp1, comp2, a, b + 1, maxEdgesPerNode,
                              <<comp1[a], comp2[b], dist>>)
             ELSE ClosestPair(st, comp1, comp2, a, b + 1, maxEdgesPerNode, best)

\* components[i] is linked to components[i + 1], for each i in turn.
RECURSIVE LinkComponents(_, _, _, _)
LinkComponents(st, components, i, maxEdgesPerNode) ==
    IF i > Len(components) - 1 THEN st
    ELSE LET best == ClosestPair(st, components[i], components[i + 1], 1, 1,
                                 maxEdgesPerNode, <<Null, Null, Infinity>>)
         IN  IF best[1] # Null /\ best[2] # Null
             THEN LinkComponents(
                      [PushEdge(st, best[1], best[2],
                                calculateWeight(best[3], Random(st.rnd)))
                          EXCEPT !.rnd = @ + 1],
                      components, i + 1, maxEdgesPerNode)
             ELSE LinkComponents(st, components, i + 1, maxEdgesPerNode)

ensureConnectivity(ns, es, maxEdgesPerNode, rnd) ==
    LET st0 == [nodes |-> ns, edges |-> es,
                edgeCounts |-> CountEdges(ns, es),
                rnd |-> rnd]
    IN  IF Cardinality(DOMAIN ns) < 2 \/ isGraphConnected(ns) THEN st0
        ELSE LinkComponents(st0, Components(ns, 0, <<>>, <<>>), 1, maxEdgesPerNode)

\* distance >= canvasDiagonal * MIN_START_END_DISTANCE_PERCENT (0.3), squared.
FarEnough(ns, s, e) ==
    100 * calculateDistanceSq(ns[s], ns[e])
        >= 9 * (CanvasWidth * CanvasWidth + CanvasHeight * CanvasHeight)

(***************************************************************************)
(* generateGraph (specification SpecGen).  gen.pc is the position in the   *)
(* function: "attempt" at the head of the do-while body, "fallback" in     *)
(* front of the widened reconnection, "select" in front of                 *)
(* selectStartAndEndNodes, "redraw" at the head of its second loop,        *)
(* "returned" after the return.                                            *)
(***************************************************************************)
\* Largest config.nodeCount.
MaxNodeCount == 9

InitGen ==
    /\ nodes = <<>>
    /\ edges = <<>>
    /\ startNode = Null
    /\ endNode = Null
    /\ call = NoCall
    /\ runs = <<>>
    /\ gen = NoGen
    /\ ui = NoUi

\* generateGraph({nodeCount}) is entered; the other settings are the defaults.
GenerateGraph(nodeCount) ==
    /\ gen.pc \in {"idle", "returned"}
    /\ gen' = [NoGen EXCEPT !.pc = "attempt", !.requested = nodeCount,
                             !.nodeCount = Max2(2, nodeCount)]
    /\ nodes' = <<>>
    /\ edges' = <<>>
    /\ startNode' = Null
    /\ endNode' = Null
    /\ UNCHANGED <<call, runs, ui>>

\* The do-while body: fresh nodes, connected by proximity, then repaired.
AttemptBody(count, layout, seed) ==
    LET placed == generateNodes(count, layout)
        linked == connectNodesByProximity(placed, DEFAULT_CONNECTIVITY_RADIUS,
                                          MAX_EDGES_PER_NODE, MIN_EDGES_PER_NODE,
                                          seed)
    IN  ensureConnectivity(linked.nodes, linked.edges, MAX_EDGES_PER_NODE, linked.rnd)

\* One pass through the do-while body and its test.
Attempt(layout, seed) ==
    /\ gen.pc = "attempt"
    /\ InCanvas(generateNodes(gen.nodeCount, layout))
    /\ \E ensured \in {AttemptBody(gen.nodeCount, layout, seed)} :
        \E connected \in {isGraphConnected(ensured.nodes)} :
           /\ nodes' = ensured.nodes
           /\ edges' = ensured.edges
           /\ gen' = [gen EXCEPT
                         !.attempts = @ + 1,
                         !.exhausted = Exhausted(ensured.nodes),
                         !.pc = IF ~connected /\ gen.attempts + 1 < GraphMaxAttempts
                                THEN "attempt"
                                ELSE IF ~connected THEN "fallback" ELSE "select"]
    /\ UNCHANGED <<startNode, endNode, call, runs, ui>>

\* The widened reconnection of the nodes as the last attempt left them.
FallbackBody(ns, seed) ==
    LET increasedRadius == (DEFAULT_CONNECTIVITY_RADIUS * 3) \div 2
        tempMaxEdges == MAX_EDGES_PER_NODE + 2
        linked == connectNodesByProximity(ns, increasedRadius, tempMaxEdges,
                                          MIN_EDGES_PER_NODE, seed)
    IN  ensureConnectivity(linked.nodes, linked.edges, tempMaxEdges, linked.rnd)

\* Still not connected after the last attempt: the same nodes are connected
\* once more with the radius times 1.5 and two more edges allowed per node.
Fallback(seed) ==
    /\ gen.pc = "fallback"
    /\ \E ensured \in {FallbackBody(nodes, seed)} :
           /\ nodes' = ensured.nodes
           /\ edges' = ensured.edges
    /\ gen' = [gen EXCEPT !.pc = "select", !.widened = TRUE]
    /\ UNCHANGED <<startNode, endNode, call, runs, ui>>

\* A variant without the second loop: when no sample qualifies the last
\* sample is returned as it is.
SelectWithoutFallback(s, e, sampled) ==
    /\ gen.pc = "select"
    /\ sampled => (s # e /\ FarEnough(nodes, s, e))
    /\ startNode' = s
    /\ endNode' = e
    /\ gen' = [gen EXCEPT !.pc = "returned", !.sampled = sampled]
    /\ UNCHANGED <<nodes, edges, call, runs, ui>>

\* A variant of the first loop without the distance test: a sample of two
\* different nodes is returned however close they are.
SelectWithoutDistanceTest(s, e, sampled) ==
    /\ gen.pc = "select"
    /\ sampled => s # e
    /\ ~sampled => (s = e \/ ~FarEnough(nodes, s, e))
    /\ startNode' = s
    /\ endNode' = e
    /\ gen' = [gen EXCEPT !.pc = IF s # e THEN "returned" ELSE "redraw",
                          !.sampled = sampled]
    /\ UNCHANGED <<nodes, edges, call, runs, ui>>

\* selectStartAndEndNodes up to the head of its second loop.  Either one of
\* the 100 samples is a pair of different nodes far enough apart and is
\* returned, or none is: (s, e) is then the last sample, which the second
\* loop leaves alone and the function returns if its nodes differ.
SelectStartAndEnd(s, e, sampled) ==
    /\ gen.pc = "select"
    /\ sampled => (s # e /\ FarEnough(nodes, s, e))
    /\ ~sampled => (s = e \/ ~FarEnough(nodes, s, e))
    /\ startNode' = s
    /\ endNode' = e
    /\ gen' = [gen EXCEPT !.pc = IF s # e THEN "returned" ELSE "redraw",
                          !.sampled = sampled]
    /\ UNCHANGED <<nodes, edges, call, runs, ui>>

\* A variant of the second loop that draws one index for both nodes.
RedrawOne(s, e) ==
    /\ gen.pc = "redraw"
    /\ startNode' = s
    /\ endNode' = s
    /\ gen' = [gen EXCEPT !.redrawn = TRUE]
    /\ UNCHANGED <<nodes, edges, call, runs, ui>>

\* One pass of while (endNode === startNode): both nodes are drawn again.
Redraw(s, e) ==
    /\ gen.pc = "redraw"
    /\ startNode' = s
    /\ endNode' = e
    /\ gen' = [gen EXCEPT !.pc = IF s # e THEN "returned" ELSE "redraw",
                          !.redrawn = TRUE]
    /\ UNCHANGED <<nodes, edges, call, runs, ui>>

NextGen ==
    \/ \E nodeCount \in 0..MaxNodeCount : GenerateGraph(nodeCount)
    \/ \E layout \in GenLayouts, seed \in Seeds : Attempt(layout, seed)
    \/ \E seed \in Seeds : Fallback(seed)
    \/ \E s \in DOMAIN nodes, e \in DOMAIN nodes, sampled \in BOOLEAN :
           SelectStartAndEnd(s, e, sampled)
    \/ \E s \in DOMAIN nodes, e \in DOMAIN nodes : Redraw(s, e)

SpecGen == InitGen /\ [][NextGen]_vars

\* generateGraph runs on once called (specification SpecGenFair): each of its
\* steps is taken when it is due, and the draws of the second loop are fair,
\* so that a pair of different nodes is drawn in the end.
\* Weak fairness of Attempt and of Fallback is written out: Attempt is
\* enabled exactly when gen.pc = "attempt" and its steps are the steps that
\* count an attempt, Fallback is enabled exactly when gen.pc = "fallback" and
\* its steps are the steps that set gen.widened.
AttemptTaken == gen.pc = "attempt" /\ gen'.attempts = gen.attempts + 1
FallbackTaken == gen.pc = "fallback" /\ gen'.widened

SpecGenFair ==
    /\ SpecGen
    /\ []<>(gen.pc # "attempt") \/ []<><<AttemptTaken>>_vars
    /\ []<>(gen.pc # "fallback") \/ []<><<FallbackTaken>>_vars
    /\ WF_vars(\E s \in DOMAIN nodes, e \in DOMAIN nodes, sampled \in BOOLEAN :
                  SelectStartAndEnd(s, e, sampled))
    /\ WF_vars(\E s \in DOMAIN nodes, e \in DOMAIN nodes : s # e /\ Redraw(s, e))

(***************************************************************************)
(* generateNodes sample by sample (specification SpecNodes).  nodes holds  *)
(* the nodes pushed so far; call holds the locals: i, attempts,            *)
(* validPosition, the last sample (x, y), and for every node pushed        *)
(* whether it took more than one sample, whether it took all of them and   *)
(* whether the last of them was valid.                                     *)
(***************************************************************************)
\* maxAttempts of generateNodes
NodeMaxAttempts == 1000

\* Largest count handed to generateNodes.
MaxCount == 3

\* The positions the samples take: the second is 50 from the first and from
\* the third, the third is exactly MIN_NODE_DISTANCE from the first.
SamplePoints == {<<100, 100>>, <<130, 140>>, <<160, 100>>, <<400, 300>>}

InitNodes ==
    /\ nodes = <<>>
    /\ edges = <<>>
    /\ startNode = Null
    /\ endNode = Null
    /\ \E count \in 2..MaxCount :
        call = [alg |-> "generateNodes", count |-> count, pc |-> "sampling",
                i |-> 0, attempts |-> 0, validPosition |-> FALSE,
                x |-> Null, y |-> Null, placed |-> <<>>]
    /\ runs = <<>>
    /\ gen = NoGen
    /\ ui = NoUi

\* One pass of while (!validPosition && attempts < maxAttempts).
SamplePosition(p) ==
    /\ call.pc = "sampling"
    /\ ~call.validPosition /\ call.attempts < NodeMaxAttempts
    /\ call' = [call EXCEPT !.x = p[1], !.y = p[2],
                            !.validPosition = isValidNodePosition(p[1], p[2], nodes,
                                                                  MIN_NODE_DISTANCE),
                            !.attempts = @ + 1]
    /\ UNCHANGED <<nodes, edges, startNode, endNode, runs, gen, ui>>

\* nodes.push(new Node(i, x, y)) once the loop is left, and the next pass of
\* the for loop or the return.
PushNode ==
    /\ call.pc = "sampling"
    /\ call.validPosition \/ call.attempts >= NodeMaxAttempts
    /\ nodes' = [j \in 0..call.i |->
                    IF j < call.i THEN nodes[j] ELSE Node(call.i, call.x, call.y)]
    /\ call' = [call EXCEPT !.i = @ + 1, !.attempts = 0, !.validPosition = FALSE,
                            !.placed = Append(@,
                                [resampled |-> call.attempts > 1,
                                 exhausted |-> call.attempts >= NodeMaxAttempts,
                                 valid |-> call.validPosition]),
                            !.pc = IF call.i + 1 >= call.count THEN "returned"
                                   ELSE "sampling"]
    /\ UNCHANGED <<edges, startNode, endNode, runs, gen, ui>>

NextNodes ==
    \/ \E p \in SamplePoints : SamplePosition(p)
    \/ PushNode

SpecNodes == InitNodes /\ [][NextNodes]_vars

(***************************************************************************)
(* connectNodesByProximity step by step (specification SpecConnect): the   *)
(* first call on freshly placed nodes with the default radius and cap, as  *)
(* generateGraph's attempts make it, then the widened call on the same     *)
(* nodes, as the fallback makes it.  call holds the function's position    *)
(* and locals: pc is "phase1" in front of the first phase, "phase2" at the *)
(* head of the while loop of node i, "returned" after the return; topUps   *)
(* lists, for each edge phase 2 pushed, the node it was pushed for, its    *)
(* place in `edges` and the candidates the node had.                       *)
(***************************************************************************)
\* The nodes j that the scan of phase 2 does not skip for node i.
Candidates(ns, edgeCounts, i, connectivityRadius, maxEdgesPerNode) ==
    {j \in DOMAIN ns :
        /\ j # i
        /\ edgeCounts[j] < maxEdgesPerNode
        /\ \A x \in 1..Len(ns[i].neighbors) : ns[i].neighbors[x].id # j
        /\ 4 * calculateDistanceSq(ns[i], ns[j])
               < 9 * connectivityRadius * connectivityRadius}

InitConnect ==
    /\ \E count \in 2..MaxNodeCount, layout \in GenLayouts :
        /\ InCanvas(generateNodes(count, layout))
        /\ nodes = generateNodes(count, layout)
    /\ edges = <<>>
    /\ startNode = Null
    /\ endNode = Null
    /\ \E seed \in Seeds :
        call = [alg |-> "connectNodesByProximity", pc |-> "phase1", i |-> 0,
                connectivityRadius |-> DEFAULT_CONNECTIVITY_RADIUS,
                maxEdgesPerNode |-> MAX_EDGES_PER_NODE,
                minEdgesPerNode |-> MIN_EDGES_PER_NODE,
                edgeCounts |-> <<>>, rnd |-> seed, topUps |-> <<>>,
                widened |-> FALSE]
    /\ runs = <<>>
    /\ gen = NoGen
    /\ ui = NoUi

\* The potential edges are collected and sorted, and phase 1 adds those the
\* limit and the overlap test allow.
CollectAndAdd ==
    /\ call.pc = "phase1"
    /\ \E st \in {LET potential == PotentialEdges(nodes, PairSeq(Cardinality(DOMAIN nodes)),
                                                  call.connectivityRadius, call.rnd)
                  IN  AddWithinLimit([nodes |-> nodes, edges |-> <<>>,
                                      edgeCounts |-> [i \in DOMAIN nodes |-> 0],
                                      rnd |-> potential.rnd],
                                     SortByDistance(potential.list), 1,
                                     call.maxEdgesPerNode)} :
        /\ nodes' = st.nodes
        /\ edges' = st.edges
        /\ call' = [call EXCEPT !.pc = "phase2", !.i = 0,
                                !.edgeCounts = st.edgeCounts, !.rnd = st.rnd]
    /\ UNCHANGED <<startNode, endNode, runs, gen, ui>>

\* One pass of the while loop of node i: the loop is left when the node has
\* its minimum or the scan finds no candidate, otherwise the edge to the
\* best candidate is pushed.
TopUpStep ==
    /\ call.pc = "phase2"
    /\ call.i < Cardinality(DOMAIN nodes)
    /\ \E best \in {BestCandidate([nodes |-> nodes, edges |-> edges,
                                   edgeCounts |-> call.edgeCounts, rnd |-> call.rnd],
                                  call.i, 0, call.connectivityRadius,
                                  call.maxEdgesPerNode, Null, Infinity)} :
        IF call.edgeCounts[call.i] >= call.minEdgesPerNode \/ best[1] = Null
        THEN /\ call' = [call EXCEPT !.i = @ + 1]
             /\ UNCHANGED <<nodes, edges>>
        ELSE \E st \in {PushEdge([nodes |-> nodes, edges |-> edges,
                                  edgeCounts |-> call.edgeCounts, rnd |-> call.rnd],
                                 call.i, best[1],
                                 calculateWeight(best[2], Random(call.rnd)))} :
                /\ nodes' = st.nodes
                /\ edges' = st.edges
                /\ call' = [call EXCEPT
                      !.edgeCounts = st.edgeCounts,
                      !.rnd = @ + 1,
                      !.topUps = Append(@,
                          [node |-> call.i, at |-> Len(st.edges),
                           candidates |-> Candidates(nodes, call.edgeCounts, call.i,
                                                     call.connectivityRadius,
                                                     call.maxEdgesPerNode)])]
    /\ UNCHANGED <<startNode, endNode, runs, gen, ui>>

\* return edges
ReturnEdges ==
    /\ call.pc = "phase2"
    /\ call.i >= Cardinality(DOMAIN nodes)
    /\ call' = [call EXCEPT !.pc = "returned"]
    /\ UNCHANGED <<nodes, edges, startNode, endNode, runs, gen, ui>>

\* The fallback's call: the same nodes, the radius times 1.5, the cap plus 2.
ConnectWidened ==
    /\ call.pc = "returned"
    /\ ~call.widened
    /\ call' = [call EXCEPT !.pc = "phase1", !.i = 0,
                            !.connectivityRadius = (DEFAULT_CONNECTIVITY_RADIUS * 3) \div 2,
                            !.maxEdgesPerNode = MAX_EDGES_PER_NODE + 2,
                            !.edgeCounts = <<>>, !.topUps = <<>>,
                            !.widened = TRUE]
    /\ UNCHANGED <<nodes, edges, startNode, endNode, runs, gen, ui>>

NextConnect == CollectAndAdd \/ TopUpStep \/ ReturnEdges \/ ConnectWidened

SpecConnect == InitConnect /\ [][NextConnect]_vars

(***************************************************************************)
(* ensureConnectivity on any graph and cap (specification SpecRepair).     *)
(* call keeps the arguments: the nodes and edges handed in and the cap.    *)
(***************************************************************************)
\* Largest maxEdgesPerNode handed to ensureConnectivity.
MaxCap == 2

InitRepair ==
    /\ InitEnumerated
    /\ \E cap \in 1..MaxCap, seed \in Seeds :
        call = [alg |-> "ensureConnectivity", nodes |-> nodes, edges |-> edges,
                maxEdgesPerNode |-> cap, rnd |-> seed, returned |-> FALSE]
    /\ runs = <<>>
    /\ gen = NoGen
    /\ ui = NoUi

EnsureConnectivity ==
    /\ ~call.returned
    /\ \E st \in {ensureConnectivity(nodes, edges, call.maxEdgesPerNode, call.rnd)} :
        /\ nodes' = st.nodes
        /\ edges' = st.edges
    /\ call' = [call EXCEPT !.returned = TRUE]
    /\ UNCHANGED <<startNode, endNode, runs, gen, ui>>

NextRepair == EnsureConnectivity

SpecRepair == InitRepair /\ [][NextRepair]_vars

(***************************************************************************)
(* The page (main.js): the explore tab and the race tab, their handlers    *)
(* and the animated runs they start (specification SpecMain).  graphData   *)
(* is the graph of nodes, edges, startNode and endNode; ui holds the other *)
(* module variables.  An animated run keeps the arguments it was called    *)
(* with (the nodes object, startId, endId) and the callbacks it was given: *)
(* the explore tab's or the race tab's closures.                           *)
(***************************************************************************)
Tabs == {"explore", "race", "compare"}

\* The graphs generateGraph hands to the page: connected, start and end
\* different.  The chain 0 - 1 - ... with one weight on every edge, with or
\* without an edge of weight MinWeight from the first node to the last.
ChainGraph(w, shortcut) ==
    LET pairs == PairSeq(NumNodes)
        wt == [k \in 1..Len(pairs) |->
                  IF pairs[k][2] = pairs[k][1] + 1 THEN w
                  ELSE IF shortcut /\ pairs[k] = <<0, NumNodes - 1>> THEN MinWeight
                  ELSE 0]
        es == EdgesOf(pairs, wt, 1)
    IN  [nodes |-> AddEdgesToNodes(PlacedNodes(NumNodes, "line"), es, 1),
         edges |-> es, startNode |-> 0, endNode |-> NumNodes - 1]

GeneratedGraphs == {ChainGraph(w, shortcut) : w \in WeightChoices, shortcut \in BOOLEAN}

\* The state init() leaves: the first graph generated, the explore tab shown.
InitMain ==
    /\ \E g \in GeneratedGraphs :
        /\ nodes = g.nodes
        /\ edges = g.edges
        /\ startNode = g.startNode
        /\ endNode = g.endNode
    /\ call = NoCall
    /\ runs = <<>>
    /\ gen = NoGen
    /\ ui = [NoUi EXCEPT !.userPath = <<startNode>>]

\* The explore tab's onStep and onComplete closures.
ExploreOnStep(u, currentNode) == [u EXCEPT !.animationHighlight = currentNode]

ExploreOnComplete(u, result) ==
    LET u1 == [u EXCEPT !.isAnimating = FALSE]
    IN  IF Len(result.path) > 0 /\ result.distance # Null
        THEN [u1 EXCEPT !.optimalPath = result.path,
                        !.optimalDistance = result.distance]
        ELSE u1

\* The race tab's onStep and onComplete closures.
RaceOnStep(u, currentNode) == [u EXCEPT !.raceAnimationHighlight = currentNode]

RaceOnComplete(u, result) ==
    [u EXCEPT !.raceAlgoComplete = TRUE,
              !.raceAlgoDistance = result.distance,
              !.raceAnimationHighlight = Null]

\* The module variables after the callbacks a run made while it went from
\* state `old` to state `new`: at most one onStep, then at most one
\* onComplete.
Delivered(u, old, new) ==
    LET stepped == Len(new.steps) > Len(old.steps)
        completed == Len(new.completed) > Len(old.completed)
        u1 == IF ~stepped THEN u
              ELSE IF new.consumer = "explore"
                   THEN ExploreOnStep(u, new.steps[Len(new.steps)].currentNode)
                   ELSE RaceOnStep(u, new.steps[Len(new.steps)].currentNode)
    IN  IF ~completed THEN u1
        ELSE IF new.consumer = "explore"
             THEN ExploreOnComplete(u1, new.completed[Len(new.completed)].result)
             ELSE RaceOnComplete(u1, new.completed[Len(new.completed)].result)

\* A call algoFunction(g.nodes, g.startNode, g.endNode, onStep, onComplete,
\* speed) up to its first await.
CallAnimated(alg, consumer, g) ==
    AnimStart(alg, "observe", g.nodes, g.startNode, g.endNode)
        @@ [consumer |-> consumer, nodes |-> g.nodes,
            startId |-> g.startNode, endId |-> g.endNode]

NotCalled == [steps |-> <<>>, completed |-> <<>>]

resetRaceState(u) ==
    [u EXCEPT !.raceStarted = FALSE, !.raceGraphData = NoGraph,
              !.raceAlgoComplete = FALSE, !.raceAlgoDistance = Null,
              !.raceAnimationHighlight = Null, !.userPath = <<>>]

\* switchTab(tabName): the explore tab has its graph since init(), the
\* compare tab's state is not part of ui.
SwitchTab(tabName) ==
    /\ ui.activeTab # tabName
    /\ ui' = IF tabName = "race" THEN resetRaceState([ui EXCEPT !.activeTab = tabName])
             ELSE [ui EXCEPT !.activeTab = tabName]
    /\ UNCHANGED <<nodes, edges, startNode, endNode, call, runs, gen>>

\* generateNewGraph(), as the Generate button calls it (window.generateGraph).
GenerateNewGraph(g) ==
    /\ ui.activeTab = "explore"
    /\ nodes' = g.nodes
    /\ edges' = g.edges
    /\ startNode' = g.startNode
    /\ endNode' = g.endNode
    /\ ui' = [ui EXCEPT !.userPath = <<g.startNode>>,
                        !.optimalPath = <<>>, !.optimalDistance = Null,
                        !.isAnimating = FALSE]
    /\ UNCHANGED <<call, runs, gen>>

\* runDijkstraVisualization(), from the explore panel's button.
RunDijkstraVisualization ==
    /\ ui.activeTab = "explore"
    /\ ~ui.isAnimating
    /\ Len(runs) < MaxRuns
    /\ \E run \in {CallAnimated("dijkstra", "explore",
                       [nodes |-> nodes, edges |-> edges,
                        startNode |-> startNode, endNode |-> endNode])} :
        /\ runs' = Append(runs, run)
        /\ ui' = Delivered([ui EXCEPT !.isAnimating = TRUE,
                                      !.animationHighlight = Null,
                                      !.optimalPath = <<>>,
                                      !.optimalDistance = Null],
                           NotCalled, run)
    /\ UNCHANGED <<nodes, edges, startNode, endNode, call, gen>>

\* startRaceFromButton(), with generateRaceGraph() and startRace() which it
\* calls; raceAlgorithm keeps its initial value 'dijkstra'.
StartRaceFromButton(g) ==
    /\ ui.activeTab = "race"
    /\ ~(ui.raceStarted /\ ~ui.raceAlgoComplete)
    /\ Len(runs) < MaxRuns
    /\ \E run \in {CallAnimated("dijkstra", "race", g)} :
        /\ runs' = Append(runs, run)
        /\ ui' = Delivered([resetRaceState(ui) EXCEPT !.raceGraphData = g,
                                                      !.userPath = <<g.startNode>>,
                                                      !.optimalPath = <<>>,
                                                      !.optimalDistance = Null,
                                                      !.raceStarted = TRUE],
                           NotCalled, run)
    /\ UNCHANGED <<nodes, edges, startNode, endNode, call, gen>>

\* The timer of run r's await fires: the run calls its onStep and goes on to
\* its next await, or to its end and its onComplete.
MainTimerFires(r) ==
    /\ runs[r].pc = "suspended"
    /\ \E run \in {AnimResume(runs[r], runs[r].nodes, runs[r].startId, runs[r].endId)} :
        /\ runs' = [runs EXCEPT ![r] = run]
        /\ ui' = Delivered(ui, runs[r], run)
    /\ UNCHANGED <<nodes, edges, startNode, endNode, call, gen>>

\* handleNodeClick(nodeId): a click on the last node of the path undoes it,
\* a click on an unused neighbour of the last node extends the path.
handleNodeClick(u, ns, nodeId) ==
    IF Len(u.userPath) = 0 THEN u
    ELSE LET lastNodeId == Last(u.userPath)
             isNeighbor == \E k \in 1..Len(ns[lastNodeId].neighbors) :
                               ns[lastNodeId].neighbors[k].id = nodeId
         IN  IF nodeId = lastNodeId /\ Len(u.userPath) > 1
             THEN [u EXCEPT !.userPath = ButLast(@)]
             ELSE IF isNeighbor /\ ~SeqHas(u.userPath, nodeId)
             THEN [u EXCEPT !.userPath = Append(@, nodeId)]
             ELSE u

\* handleCanvasClick(e) on a node of the explore canvas, which is shown in
\* the explore tab.
HandleCanvasClick(nodeId) ==
    /\ ui.activeTab = "explore"
    /\ ~ui.isAnimating
    /\ ui' = handleNodeClick(ui, nodes, nodeId)
    /\ UNCHANGED <<nodes, edges, startNode, endNode, call, runs, gen>>

\* handleRaceCanvasClick(e) on a node of the race canvas, which is shown in
\* the race tab.
HandleRaceCanvasClick(nodeId) ==
    /\ ui.activeTab = "race"
    /\ ~ui.isAnimating /\ ui.raceGraphData # NoGraph /\ ui.raceStarted
    /\ nodeId \in DOMAIN ui.raceGraphData.nodes
    /\ ui' = IF Len(ui.userPath) = 0
             THEN IF nodeId = ui.raceGraphData.startNode
                  THEN [ui EXCEPT !.userPath = <<nodeId>>]
                  ELSE ui
             ELSE LET currentNode == Last(ui.userPath)
                      nbrs == ui.raceGraphData.nodes[currentNode].neighbors
                      isNeighbor == \E k \in 1..Len(nbrs) : nbrs[k].id = nodeId
                  IN  IF ~isNeighbor THEN ui
                      ELSE IF Len(ui.userPath) > 1
                              /\ ui.userPath[Len(ui.userPath) - 1] = nodeId
                      THEN [ui EXCEPT !.userPath = ButLast(@)]
                      ELSE IF ~SeqHas(ui.userPath, nodeId)
                      THEN [ui EXCEPT !.userPath = Append(@, nodeId)]
                      ELSE ui
    /\ UNCHANGED <<nodes, edges, startNode, endNode, call, runs, gen>>

\* resetUserPath(), from the explore panel's button or the R key.
ResetUserPath ==
    /\ ui.activeTab = "explore"
    /\ ~ui.isAnimating
    /\ ui' = [ui EXCEPT !.userPath = <<startNode>>]
    /\ UNCHANGED <<nodes, edges, startNode, endNode, call, runs, gen>>

NextMain ==
    \/ \E tabName \in Tabs : SwitchTab(tabName)
    \/ \E nodeId \in DOMAIN nodes : HandleCanvasClick(nodeId)
    \/ \E nodeId \in DOMAIN nodes : HandleRaceCanvasClick(nodeId)
    \/ ResetUserPath
    \/ \E g \in GeneratedGraphs : GenerateNewGraph(g)
    \/ RunDijkstraVisualization
    \/ \E g \in GeneratedGraphs : StartRaceFromButton(g)
    \/ \E r \in DOMAIN runs : MainTimerFires(r)

SpecMain == InitMain /\ [][NextMain]_vars

(***************************************************************************)
(* Reference notions the properties are stated with (not code).            *)
(***************************************************************************)
\* Bellman-Ford: the least total weight of a walk from s to each node, over
\* all adjacency entries; Infinity where there is none.
RelaxAll(ns, d) ==
    [v \in DOMAIN ns |->
        LET via(u) == {d[u] + ns[u].neighbors[k].weight :
                         k \in {k \in 1..Len(ns[u].neighbors) :
                                  ns[u].neighbors[k].id = v}}
            cands == {d[v]} \cup
                     UNION {via(u) : u \in {x \in DOMAIN ns : d[x] < Infinity}}
        IN  CHOOSE c \in cands : \A c2 \in cands : c <= c2]

RECURSIVE BellmanFord(_, _, _)
BellmanFord(ns, d, rounds) ==
    IF rounds = 0 THEN d
    ELSE LET next == RelaxAll(ns, d)
         IN  IF next = d THEN d ELSE BellmanFord(ns, next, rounds - 1)

ShortestDistances(ns, s) ==
    BellmanFord(ns, [v \in DOMAIN ns |-> IF v = s THEN 0 ELSE Infinity],
                Cardinality(DOMAIN ns))

ShortestDistance(ns, s, e) == ShortestDistances(ns, s)[e]
Reachable(ns, s, e) == ShortestDistance(ns, s, e) < Infinity
Connected(ns) == \A u \in DOMAIN ns, v \in DOMAIN ns : Reachable(ns, u, v)

\* No node lists itself or lists a neighbour twice.
Simple(ns) ==
    \A u \in DOMAIN ns :
        \A k \in 1..Len(ns[u].neighbors) :
            /\ ns[u].neighbors[k].id # u
            /\ \A l \in 1..Len(ns[u].neighbors) :
                   ns[u].neighbors[l].id = ns[u].neighbors[k].id => l = k

\* Whenever u lists v with weight w, v lists u with weight w equally often.
EntryCount(ns, u, v, w) ==
    Cardinality({k \in 1..Len(ns[u].neighbors) :
                   ns[u].neighbors[k].id = v /\ ns[u].neighbors[k].weight = w})

SymmetricAdjacency(ns) ==
    \A u \in DOMAIN ns :
        \A k \in 1..Len(ns[u].neighbors) :
            LET v == ns[u].neighbors[k].id
                w == ns[u].neighbors[k].weight
            IN  EntryCount(ns, u, v, w) = EntryCount(ns, v, u, w)

\* All adjacency entries carry one and the same weight.
UniformWeights(ns) ==
    \A u \in DOMAIN ns, v \in DOMAIN ns :
        \A k \in 1..Len(ns[u].neighbors), l \in 1..Len(ns[v].neighbors) :
            ns[u].neighbors[k].weight = ns[v].neighbors[l].weight

Adjacent(ns, u, v) == \E k \in 1..Len(ns[u].neighbors) : ns[u].neighbors[k].id = v

\* The least weight among the entries of u that name v.
LeastWeight(ns, u, v) ==
    LET ws == {ns[u].neighbors[k].weight :
                 k \in {k \in 1..Len(ns[u].neighbors) : ns[u].neighbors[k].id = v}}
    IN  CHOOSE w \in ws : \A w2 \in ws : w <= w2

RECURSIVE LeastPathWeight(_, _, _)
LeastPathWeight(ns, path, i) ==
    IF i >= Len(path) THEN 0
    ELSE LeastWeight(ns, path[i], path[i + 1]) + LeastPathWeight(ns, path, i + 1)

\* path is a simple path of the graph from s to e.
IsSimplePath(ns, path, s, e) ==
    /\ Len(path) >= 1
    /\ path[1] = s
    /\ path[Len(path)] = e
    /\ \A i \in 1..Len(path), j \in 1..Len(path) : path[i] = path[j] => i = j
    /\ \A i \in 1..(Len(path) - 1) : Adjacent(ns, path[i], path[i + 1])

Called == call.alg # "none"
Optimum == ShortestDistance(nodes, startNode, endNode)
GoalReachable == Reachable(nodes, startNode, endNode)

(***************************************************************************)
(* Properties of the batch algorithms (specification Spec).                *)
(***************************************************************************)

\* C2 (as claimed): on every connected graph with weights in 1..9, whatever the
\* node coordinates, aStar returns the same distance as dijkstra.
C2_AStarEqualsDijkstra ==
    (call.alg = "astar" /\ Connected(nodes) /\ Simple(nodes))
        => call.result.distance = dijkstra(nodes, startNode, endNode).distance

\* C3: whenever endNode is reachable, dijkstra returns the least total weight
\* over all paths from startNode to endNode together with a simple path of
\* that weight; on the end-to-end example it returns [0,1,2,3] and 6.
C3_DijkstraOptimal ==
    call.alg = "dijkstra" =>
        /\ GoalReachable =>
              /\ call.result.distance = Optimum
              /\ IsSimplePath(nodes, call.result.path, startNode, endNode)
              /\ LeastPathWeight(nodes, call.result.path, 1) = Optimum
        /\ (nodes = ExampleNodes /\ startNode = 0 /\ endNode = 3) =>
              /\ call.result.path = <<0, 1, 2, 3>>
              /\ call.result.distance = 6

C3_Witness ==
    /\ call.alg = "dijkstra"
    /\ nodes = ExampleNodes /\ startNode = 0 /\ endNode = 3
    /\ call.result.path = <<0, 1, 2, 3>>
    /\ call.result.distance = 6

\* C4 (as claimed): whenever endNode is reachable, bfs returns the true
\* shortest-path distance.
C4_BfsOptimal ==
    (call.alg = "bfs" /\ GoalReachable) => call.result.distance = Optimum

\* C4 (amended): whenever endNode is reachable, bfs returns a distance that is
\* never below the true shortest-path distance, and equal to it when all
\* adjacency entries carry the same weight.
C4_BfsOptimalOnUniformWeights ==
    (call.alg = "bfs" /\ GoalReachable) =>
        /\ call.result.distance # Null
        /\ call.result.distance >= Optimum
        /\ UniformWeights(nodes) => call.result.distance = Optimum

C4_Witness ==
    /\ call.alg = "bfs"
    /\ UniformWeights(nodes)
    /\ Len(call.result.path) >= 3
    /\ call.result.distance = Optimum

\* C5: whenever a path from startNode to endNode exists, greedyBestFirst, bfs
\* and dfs return a non-null distance that is at least the shortest-path
\* distance.
C5_NonOptimalAtLeastOptimum ==
    (call.alg \in {"greedy", "bfs", "dfs"} /\ GoalReachable) =>
        /\ call.result.distance # Null
        /\ call.result.distance >= Optimum

C5_Witness ==
    /\ call.alg = "dfs"
    /\ GoalReachable
    /\ call.result.distance > Optimum

\* C6 (as claimed): for every algorithm and every graph with symmetric
\* adjacency lists, where a node may list a neighbour more than once, a
\* non-empty returned path has calculatePathWeight(path, nodes) = distance.
C6_PathWeightIsDistance ==
    (Called /\ SymmetricAdjacency(nodes) /\ call.result.path # <<>>) =>
        calculatePathWeight(call.result.path, nodes) = call.result.distance

\* C7: for every algorithm and graph, a non-empty returned path starts at
\* startNode, ends at endNode, repeats no node, and each consecutive pair of
\* it is joined by an adjacency entry.
C7_PathWellFormed ==
    (Called /\ call.result.path # <<>>) =>
        IsSimplePath(nodes, call.result.path, startNode, endNode)

C7_Witness ==
    /\ Called
    /\ Len(call.result.path) = NumNodes
    /\ IsSimplePath(nodes, call.result.path, startNode, endNode)

\* C8: for every algorithm and graph, the path is empty exactly when the
\* distance is null, exactly when endNode is unreachable from startNode; the
\* call returns this as an ordinary result.
C8_EmptyIffNullIffUnreachable ==
    Called =>
        /\ (call.result.path = <<>>) <=> (call.result.distance = Null)
        /\ (call.result.distance = Null) <=> ~GoalReachable

C8_Witness ==
    /\ Called
    /\ ~GoalReachable
    /\ call.result.path = <<>>
    /\ call.result.distance = Null
    /\ Len(call.result.visitedNodes) >= 2

\* C14: in every algorithm's result visitedNodes lists no node twice and
\* contains the nodes that were finalized: every node of the returned path,
\* the goal included when the goal is reached.
C14_VisitedNodesHoldFinalized ==
    Called =>
        LET v == call.result.visitedNodes
            path == call.result.path
        IN  /\ \A i \in 1..Len(v), j \in 1..Len(v) : v[i] = v[j] => i = j
            /\ \A k \in 1..Len(path) : SeqHas(v, path[k])
            /\ path # <<>> => SeqHas(v, endNode)

(***************************************************************************)
(* Animated runs                                                           *)
(***************************************************************************)
Finished(r) == runs[r].pc = "done"

\* The states run st0 passes through when no other run exists.
RECURSIVE OnOwnTrack(_, _, _, _, _)
OnOwnTrack(st0, st, ns, s, e) ==
    \/ st0 = st
    \/ /\ st0.pc = "suspended"
       /\ OnOwnTrack(AnimResume(st0, ns, s, e), st, ns, s, e)

\* C9: every animated variant resolves to the path, distance and visited
\* order its batch counterpart returns on the same graph and endpoints,
\* whatever the callbacks.
C9_AnimatedEqualsBatch ==
    \A r \in DOMAIN runs :
        Finished(r) =>
            runs[r].result = RunBatch(runs[r].alg, nodes, startNode, endNode)

C11_StepsInVisitationOrder ==
    \A r \in DOMAIN runs :
        LET st == runs[r]
        IN  st.cb # "none" =>
              /\ \A k \in 1..Len(st.steps) :
                    /\ k <= Len(st.visited)
                    /\ st.steps[k].currentNode = st.visited[k]
                    /\ st.steps[k].visitedSoFar = SubSeq(st.visited, 1, k)
              /\ st.pc = "suspended" =>
                    /\ Len(st.steps) = Len(st.visited) - 1
                    /\ st.completed = <<>>
              /\ Finished(r) =>
                    /\ st.result.visitedNodes = st.visited
                    /\ Len(st.steps) = Len(st.visited)
                    /\ st.completed = <<[result |-> st.result,
                                         after  |-> Len(st.steps)]>>

\* A finished bfsAnimated run that visited every node and reported each, and
\* a finished aStarAnimated run that found the goal.
C11_Witness ==
    \E r \in DOMAIN runs, q \in DOMAIN runs :
        /\ runs[r].alg = "bfs" /\ runs[r].cb = "observe" /\ Finished(r)
        /\ Len(runs[r].steps) = NumNodes
        /\ Len(runs[r].completed) = 1
        /\ runs[q].alg = "astar" /\ runs[q].cb = "observe" /\ Finished(q)
        /\ Len(runs[q].steps) >= 2
        /\ Len(runs[q].result.path) >= 2

\* What a run that is suspended for a node has done and not done.
AtYieldPoint(st) ==
    /\ Len(st.visited) > 0
    /\ Last(st.visited) = st.cur
    /\ Len(st.steps) = Len(st.visited) - 1
    /\ \A i \in DOMAIN st.parent : st.parent[i] # st.cur

\* The timer of a suspended run fires: onStep is called with the distances as
\* they stood at the suspension, before anything else is done.
StepFirst(r) ==
    (r \in DOMAIN runs /\ runs[r].pc = "suspended" /\ runs'[r] # runs[r]) =>
        /\ Len(runs'[r].steps) > Len(runs[r].steps)
        /\ LET call1 == runs'[r].steps[Len(runs[r].steps) + 1]
           IN  /\ call1.currentNode = runs[r].cur
               /\ call1.visitedSoFar = runs[r].visited
               /\ call1.distances = runs[r].distances

\* C12: dijkstraAnimated, aStarAnimated and bfsAnimated yield control only
\* while suspended for a node: the node is then the last one added to the
\* visited set, its onStep call has not been made and none of its neighbours
\* has been relaxed (no node has it as parent); when the timer fires the onStep
\* call comes first and sees the distances of the suspension.
C12_YieldAfterVisitBeforeRelax ==
    /\ [](\A r \in DOMAIN runs :
            runs[r].alg \in {"dijkstra", "astar", "bfs"} =>
                /\ runs[r].pc \in {"suspended", "done"}
                /\ runs[r].pc = "suspended" => AtYieldPoint(runs[r]))
    /\ [][\A r \in DOMAIN runs :
            runs[r].alg \in {"dijkstra", "astar", "bfs"} => StepFirst(r)]_vars

\* dijkstraAnimated suspended for its second node, which has a neighbour that
\* is still at Infinity.
C12_Witness ==
    \E r \in DOMAIN runs :
        /\ runs[r].alg = "dijkstra" /\ runs[r].pc = "suspended"
        /\ Len(runs[r].visited) = 2
        /\ \E k \in 1..Len(nodes[runs[r].cur].neighbors) :
              runs[r].distances[nodes[runs[r].cur].neighbors[k].id] = Infinity

\* C13: a step event is observational.  The distances a consumer was handed
\* at a step and kept read later as they read at the call, and a run ends
\* with the result it ends with when no callback is given, whatever its
\* consumer does with what it is handed.
C13_StepEventsObservational ==
    \A r \in DOMAIN runs :
        LET st == runs[r]
        IN  /\ st.cb = "observe" =>
                  \A k \in 1..Len(st.steps) : st.steps[k].distances = st.distances
            /\ Finished(r) =>
                  st.result
                      = AnimStart(st.alg, "none", nodes, startNode, endNode).result

\* C16: reconstructPath ends within the step cap on every parent map, and
\* what it returns is empty or a path that begins at startId, ends at endId,
\* repeats no node and has each element the parent of the next.
C16_ReconstructPathValid ==
    call.returned =>
        LET path == call.path
        IN  /\ Len(path) <= PathCap + 1
            /\ \/ path = <<>>
               \/ /\ path[1] = startNode
                  /\ path[Len(path)] = endNode
                  /\ \A i \in 1..Len(path), j \in 1..Len(path) :
                        path[i] = path[j] => i = j
                  /\ \A i \in 1..(Len(path) - 1) :
                        call.parent[path[i + 1]] = path[i]

Returned == gen.pc = "returned"

\* C1: in every graph generateGraph returns, a breadth-first traversal over
\* the adjacency lists from any node visits all nodes.
C1_ReturnedGraphConnected ==
    Returned =>
        \A s \in DOMAIN nodes :
            Len(Traverse(nodes, <<s>>, <<s>>)) = Cardinality(DOMAIN nodes)
\* C17: every weight the generator produces, in edges and in adjacency
\* entries, whether from proximity connection, top-up or repair, is a whole
\* number from 1 to 9.
C17_WeightsInRange ==
    /\ \A k \in 1..Len(edges) : edges[k].weight \in MinWeight..MaxWeight
    /\ \A i \in DOMAIN nodes :
          \A k \in 1..Len(nodes[i].neighbors) :
              nodes[i].neighbors[k].weight \in MinWeight..MaxWeight

\* A returned graph with an edge of weight 9 between nodes 480 or more apart,
\* where the rounded value exceeds 9, and with an edge of weight 1.
C17_Witness ==
    /\ Returned
    /\ \E k \in 1..Len(edges) :
          /\ edges[k].weight = MaxWeight
          /\ calculateDistanceSq(nodes[edges[k].from], nodes[edges[k].to])
                >= 480 * 480
    /\ \E k \in 1..Len(edges) : edges[k].weight = MinWeight

\* C18: in every returned graph adjacency is symmetric: a node lists a
\* neighbour with a weight as often as the neighbour lists it with that
\* weight.
C18_AdjacencySymmetric == Returned => SymmetricAdjacency(nodes)

\* A graph returned after the widened fallback, in which some node lists a
\* neighbour more than once.
C18_Witness ==
    /\ Returned /\ gen.widened
    /\ \E u \in DOMAIN nodes :
          \E k \in 1..Len(nodes[u].neighbors), l \in 1..Len(nodes[u].neighbors) :
              k # l /\ nodes[u].neighbors[k].id = nodes[u].neighbors[l].id

\* C19: in every returned graph each entry {from, to, weight} of edges has an
\* adjacency entry with that weight in both of its endpoints.
C19_EdgesHaveAdjacencyEntries ==
    Returned =>
        \A k \in 1..Len(edges) :
            /\ EntryCount(nodes, edges[k].from, edges[k].to, edges[k].weight) >= 1
            /\ EntryCount(nodes, edges[k].to, edges[k].from, edges[k].weight) >= 1

\* A returned graph whose edges come from proximity connection and from the
\* repair of a disconnected graph.
C19_Witness ==
    /\ Returned /\ ~gen.widened
    /\ \E k \in 1..Len(edges), l \in 1..Len(edges) :
          /\ calculateDistanceSq(nodes[edges[k].from], nodes[edges[k].to])
                < DEFAULT_CONNECTIVITY_RADIUS * DEFAULT_CONNECTIVITY_RADIUS
          /\ calculateDistanceSq(nodes[edges[l].from], nodes[edges[l].to])
                > 4 * DEFAULT_CONNECTIVITY_RADIUS * DEFAULT_CONNECTIVITY_RADIUS
\* C20: generateGraph returns two different nodes as startNode and endNode,
\* both indices of nodes, also when none of the 100 samples qualifies and the
\* second loop picks the pair.
C20_StartAndEndDiffer ==
    Returned =>
        /\ startNode \in DOMAIN nodes
        /\ endNode \in DOMAIN nodes
        /\ startNode # endNode

\* A graph returned with a pair from the second loop: none of the samples
\* qualified and the nodes returned are closer than the minimum distance.
C20_Witness ==
    /\ Returned /\ ~gen.sampled
    /\ ~FarEnough(nodes, startNode, endNode)
    /\ Cardinality(DOMAIN nodes) >= 3
\* C21: generateGraph returns once called.  The do-while body is entered at
\* most 10 times, the widened fallback is entered only after the tenth
\* attempt and at most once, and the selection of the endpoints ends, its
\* second loop under fair draws.
C21_GenerateGraphReturns ==
    /\ [](/\ gen.attempts <= GraphMaxAttempts
          /\ gen.pc = "attempt" => gen.attempts < GraphMaxAttempts
          /\ gen.pc = "fallback" => (gen.attempts = GraphMaxAttempts /\ ~gen.widened)
          /\ gen.widened => gen.attempts = GraphMaxAttempts)
    /\ (gen.pc # "idle") ~> Returned

\* A call that took all ten attempts and the widened fallback, found no
\* qualifying pair among its samples, went round the second loop and
\* returned.
C21_Witness ==
    /\ Returned
    /\ gen.attempts = GraphMaxAttempts /\ gen.widened
    /\ ~gen.sampled /\ gen.redrawn
\* The weight of the first entry of u that names v; 0 when there is none.
FirstEntryWeight(ns, u, v) ==
    IF ~Adjacent(ns, u, v) THEN 0
    ELSE LET k == CHOOSE k \in 1..Len(ns[u].neighbors) :
                     /\ ns[u].neighbors[k].id = v
                     /\ \A j \in 1..(k - 1) : ns[u].neighbors[j].id # v
         IN  ns[u].neighbors[k].weight

RECURSIVE SumOverPairs(_, _, _)
SumOverPairs(ns, path, n) ==
    IF n < 2 THEN 0
    ELSE SumOverPairs(ns, path, n - 1) + FirstEntryWeight(ns, path[n - 1], path[n])

\* C22: calculatePathWeight returns 0 for a sequence of no or one node and
\* otherwise the sum, over the consecutive pairs, of the weight of the
\* adjacency entry that joins the pair (the first one the node lists); a pair
\* that no entry joins adds zero.
C22_PathWeightIsSumOfEntries ==
    call.returned =>
        /\ call.total = SumOverPairs(nodes, call.path, Len(call.path))
        /\ Len(call.path) <= 1 => call.total = 0

\* The weight of a three-node sequence whose first pair is joined by an
\* entry and whose second pair is not.
C22_Witness ==
    /\ call.returned
    /\ Len(call.path) = 3
    /\ Adjacent(nodes, call.path[1], call.path[2])
    /\ ~Adjacent(nodes, call.path[2], call.path[3])
    /\ call.total > 0
C24_OptimalPathOfCurrentGraph ==
    (ui.optimalPath # <<>> \/ ui.optimalDistance # Null) =>
        /\ ui.optimalPath = dijkstra(nodes, startNode, endNode).path
        /\ ui.optimalDistance = dijkstra(nodes, startNode, endNode).distance

\* C25: once the race's algorithm is marked complete, raceAlgoDistance is
\* the distance the algorithm finds on the current raceGraphData: callbacks
\* of a run superseded by a tab switch or a new race change nothing.
C25_RaceDistanceOfCurrentRace ==
    ui.raceAlgoComplete =>
        /\ ui.raceGraphData # NoGraph
        /\ ui.raceAlgoDistance =
              dijkstra(ui.raceGraphData.nodes, ui.raceGraphData.startNode,
                       ui.raceGraphData.endNode).distance

\* C26: dfs returns the lowest-cost path among all simple paths from
\* startNode to endNode: on a graph that lists each neighbour once, whenever
\* endNode is reachable the distance returned is the least total weight of
\* a path between them.
C26_DfsReturnsCheapestSimplePath ==
    (call.alg = "dfs" /\ Simple(nodes) /\ GoalReachable) =>
        /\ call.result.distance = Optimum
        /\ IsSimplePath(nodes, call.result.path, startNode, endNode)

\* C27: on a graph generateGraph returned, aStar's heuristic is admissible:
\* for every node the goal can be reached from, the Euclidean distance to
\* the goal does not exceed the least total weight of a path to the goal
\* (compared by their squares).
C27_HeuristicAdmissible ==
    gen.pc = "returned" =>
        \A n \in DOMAIN nodes :
            \E d \in {ShortestDistances(nodes, n)[endNode]} :
                d < Infinity => calculateDistanceSq(nodes[n], nodes[endNode]) <= d * d

\* C29: in every graph generateGraph returns, no node has more adjacency
\* entries than the cap in force: MAX_EDGES_PER_NODE when a normal attempt
\* gave the graph, MAX_EDGES_PER_NODE + 2 when the widened fallback ran.
C29_DegreeWithinCap ==
    Returned =>
        \A i \in DOMAIN nodes :
            Len(nodes[i].neighbors) <= IF gen.widened THEN MAX_EDGES_PER_NODE + 2
                                       ELSE MAX_EDGES_PER_NODE

\* C28: when every component of the graph handed to ensureConnectivity has
\* a node whose degree is below the cap, the graph it leaves is connected,
\* and every edge it added joins two nodes that the graph handed in did not
\* connect and leaves both of them with at most `cap` edges.
C28_RepairLeavesOneComponent ==
    (call.alg = "ensureConnectivity" /\ call.returned) =>
        /\ (\A u \in DOMAIN call.nodes :
               \E v \in DOMAIN call.nodes :
                   /\ Reachable(call.nodes, u, v)
                   /\ CountEdges(call.nodes, call.edges)[v] < call.maxEdgesPerNode)
              => Connected(nodes)
        /\ \A k \in (Len(call.edges) + 1)..Len(edges) :
               /\ ~Reachable(call.nodes, edges[k].from, edges[k].to)
               /\ CountEdges(nodes, edges)[edges[k].from] <= call.maxEdgesPerNode
               /\ CountEdges(nodes, edges)[edges[k].to] <= call.maxEdgesPerNode

\* C30: after connectNodesByProximity returns, every node has at least
\* MIN_EDGES_PER_NODE edges or has no remaining candidate (a different node,
\* not yet connected to it, with fewer edges than the cap, less than 1.5
\* times the connectivity radius away); and every edge phase 2 pushed goes
\* from the node it was pushed for to the nearest candidate that node had.
C30_MinimumOrNoCandidate ==
    call.alg = "connectNodesByProximity" =>
        /\ call.pc = "returned" =>
              \A i \in DOMAIN nodes :
                  \/ CountEdges(nodes, edges)[i] >= call.minEdgesPerNode
                  \/ Candidates(nodes, CountEdges(nodes, edges), i,
                                call.connectivityRadius, call.maxEdgesPerNode) = {}
        /\ \A k \in 1..Len(call.topUps) :
              LET t == call.topUps[k]
                  e == edges[t.at]
              IN  /\ e.from = t.node
                  /\ e.to \in t.candidates
                  /\ \A c \in t.candidates :
                         calculateDistanceSq(nodes[t.node], nodes[e.to])
                             <= calculateDistanceSq(nodes[t.node], nodes[c])

\* A call has returned in which phase 2 pushed an edge for a node that had
\* a nearer candidate after a farther one, and which leaves a node below
\* the minimum for want of a candidate.
C30_Witness ==
    /\ call.alg = "connectNodesByProximity"
    /\ call.pc = "returned"
    /\ \E k \in 1..Len(call.topUps) :
          \E c \in call.topUps[k].candidates :
              /\ c < edges[call.topUps[k].at].to
              /\ calculateDistanceSq(nodes[call.topUps[k].node], nodes[c])
                     > calculateDistanceSq(nodes[call.topUps[k].node],
                                           nodes[edges[call.topUps[k].at].to])
    /\ \E i \in DOMAIN nodes :
          CountEdges(nodes, edges)[i] < call.minEdgesPerNode

\* C31: the pair selectStartAndEndNodes returns is at least 30% of the
\* canvas diagonal apart when one of the 100 samples gave it; a returned
\* pair that is closer comes from the case in which no sample qualified,
\* and its two nodes are different.
C31_FarApartUnlessSamplesFailed ==
    Returned =>
        /\ gen.sampled => (startNode # endNode /\ FarEnough(nodes, startNode, endNode))
        /\ ~FarEnough(nodes, startNode, endNode) => (~gen.sampled /\ startNode # endNode)

\* A graph that has a pair far enough apart is returned with a closer pair:
\* the last of the 100 failed samples, two different nodes.
C31_Witness ==
    /\ Returned /\ ~gen.sampled /\ ~gen.redrawn
    /\ startNode # endNode
    /\ ~FarEnough(nodes, startNode, endNode)
    /\ \E a \in DOMAIN nodes, b \in DOMAIN nodes : FarEnough(nodes, a, b)

\* Nodes a and b are at least MIN_NODE_DISTANCE apart.
Separated(ns, a, b) ==
    calculateDistanceSq(ns[a], ns[b]) >= MIN_NODE_DISTANCE * MIN_NODE_DISTANCE

\* C32: every node generateNodes pushed stands at a sample that is at least
\* the minimum separation from all nodes pushed before it, and sampling
\* stopped at that sample, or it stands at its 1000th sample; hence, when no
\* node was pushed at an invalid 1000th sample, all pairs of nodes are at
\* least the minimum separation apart.
C32_FirstValidOrLastSample ==
    /\ [](call.alg = "generateNodes" =>
            /\ \A i \in DOMAIN nodes :
                  \/ /\ call.placed[i + 1].valid
                     /\ \A j \in 0..(i - 1) : Separated(nodes, i, j)
                  \/ /\ ~call.placed[i + 1].valid
                     /\ call.placed[i + 1].exhausted
                     /\ \E j \in 0..(i - 1) : ~Separated(nodes, i, j)
            /\ (\A i \in DOMAIN nodes : call.placed[i + 1].valid) =>
                  \A a \in DOMAIN nodes, b \in DOMAIN nodes :
                      a # b => Separated(nodes, a, b))
    /\ [][(call.alg = "generateNodes" /\ call.validPosition) =>
             (call'.i = call.i + 1 /\ nodes'[call.i].x = call.x
                                   /\ nodes'[call.i].y = call.y)]_vars

\* generateNodes(3) has returned: one node took more than one sample to find
\* a valid position, another was pushed at its 1000th sample, too close to
\* an earlier node.
C32_Witness ==
    /\ call.alg = "generateNodes" /\ call.pc = "returned" /\ call.count = 3
    /\ \E i \in DOMAIN nodes :
          call.placed[i + 1].valid /\ call.placed[i + 1].resampled
    /\ \E i \in DOMAIN nodes :
          /\ ~call.placed[i + 1].valid
          /\ call.placed[i + 1].exhausted

\* C33: a graph generateGraph returns has exactly max(2, nodeCount) nodes,
\* at the indices 0, 1, ..., the node at index i has id i, and every
\* adjacency entry and every end of an edge is one of these indices.
C33_IdsAreIndices ==
    Returned =>
        /\ DOMAIN nodes = 0..(Max2(2, gen.requested) - 1)
        /\ \A i \in DOMAIN nodes :
              /\ nodes[i].id = i
              /\ \A k \in 1..Len(nodes[i].neighbors) :
                    nodes[i].neighbors[k].id \in DOMAIN nodes
        /\ \A k \in 1..Len(edges) :
              edges[k].from \in DOMAIN nodes /\ edges[k].to \in DOMAIN nodes

\* generateGraph({nodeCount: 1}) has returned a graph of two nodes with ids
\* 0 and 1, joined by an edge.
C33_Witness ==
    /\ Returned
    /\ gen.requested = 1
    /\ Cardinality(DOMAIN nodes) = 2
    /\ Len(edges) = 1 /\ Len(nodes[0].neighbors) = 1

\* C34: a graph generateGraph returns is simple, whichever way it was
\* generated: no node lists itself and no node lists a neighbour twice.
C34_ReturnedGraphSimple == Returned => Simple(nodes)

\* The number of adjacency entries of all nodes together.
AdjacencyEntries(ns) ==
    Cardinality(UNION {{<<i, k>> : k \in 1..Len(ns[i].neighbors)} : i \in DOMAIN ns})

\* C35: in a graph generateGraph returns the edges list and the adjacency
\* lists describe the same edges: every adjacency entry is the entry of an
\* edge of the list, with its weight, and the adjacency lists hold twice as
\* many entries as the list holds edges.
C35_EdgesListMatchesAdjacency ==
    Returned =>
        /\ \A i \in DOMAIN nodes :
              \A k \in 1..Len(nodes[i].neighbors) :
                  \E x \in 1..Len(edges) :
                      /\ edges[x].weight = nodes[i].neighbors[k].weight
                      /\ \/ edges[x].from = i /\ edges[x].to = nodes[i].neighbors[k].id
                         \/ edges[x].to = i /\ edges[x].from = nodes[i].neighbors[k].id
        /\ AdjacencyEntries(nodes) = 2 * Len(edges)


(***************************************************************************)
(* C36.  At every iteration of dijkstra, aStar, bfs and greedyBestFirst    *)
(* the parent map is acyclic: parent[startId] is null, following parents   *)
(* from any node that has one reaches startId without repeating a node,    *)
(* and from one iteration to the next a parent is only ever set to a node  *)
(* that is visited by then, and never for a node that was visited already. *)
(***************************************************************************)
Searching == call.alg \in SteppedAlgorithms

RECURSIVE ChainReaches(_, _, _, _)
ChainReaches(parent, current, s, n) ==
    IF current = s THEN TRUE
    ELSE IF n = 0 \/ parent[current] = Null THEN FALSE
    ELSE ChainReaches(parent, parent[current], s, n - 1)

ParentMapAcyclic ==
    Searching =>
        /\ call.st.parent[startNode] = Null
        /\ \A i \in DOMAIN nodes :
               call.st.parent[i] # Null =>
                   ChainReaches(call.st.parent, i, startNode, Cardinality(DOMAIN nodes) - 1)

ParentSetOnlyToVisited ==
    (Searching /\ call'.alg = call.alg) =>
        \A i \in DOMAIN nodes :
            call'.st.parent[i] # call.st.parent[i] =>
                /\ SeqHas(call'.st.visited, call'.st.parent[i])
                /\ ~SeqHas(call.st.visited, i)

C36_ParentMapAcyclic == []ParentMapAcyclic /\ [][ParentSetOnlyToVisited]_vars

\* A finished search in which a node two parent links from the start was found.
C36_Witness ==
    /\ Searching /\ call.pc = "done"
    /\ \E i \in DOMAIN nodes :
          /\ call.st.parent[i] \notin {Null, startNode}
          /\ call.st.parent[call.st.parent[i]] = startNode


(***************************************************************************)
(* C37.  In dijkstra, at every iteration, the nodes of visitedNodes stand  *)
(* in non-decreasing order of their shortest distance from startId, the    *)
(* recorded distance of each of them (unchanged since it was taken from    *)
(* the unvisited set) is that shortest distance, and none of them is       *)
(* farther from startId than the goal.                                     *)
(***************************************************************************)
C37_DijkstraVisitsInDistanceOrder ==
    call.alg = "dijkstra" =>
        \A d \in {ShortestDistances(nodes, startNode)} :
            \A k \in 1..Len(call.st.visited) :
                /\ call.st.distances[call.st.visited[k]] = d[call.st.visited[k]]
                /\ k > 1 => d[call.st.visited[k - 1]] <= d[call.st.visited[k]]
                /\ d[call.st.visited[k]] <= d[endNode]

\* A finished dijkstra that reached the goal and left a reachable node beyond
\* the goal unvisited.
C37_Witness ==
    /\ call.alg = "dijkstra" /\ call.pc = "done"
    /\ Len(call.st.visited) >= 2
    /\ Last(call.st.visited) = endNode
    /\ \E i \in DOMAIN nodes :
          /\ ~SeqHas(call.st.visited, i)
          /\ ShortestDistance(nodes, startNode, i) < Infinity
          /\ ShortestDistance(nodes, startNode, i)
                 > ShortestDistance(nodes, startNode, endNode)


(***************************************************************************)
(* C38.  In the explore tab at most one run started by                     *)
(* runDijkstraVisualization is in flight (started, its onComplete not yet  *)
(* called) at any time, and isAnimating is true exactly while one is.      *)
(***************************************************************************)
ExploreRunsInFlight ==
    {r \in DOMAIN runs : runs[r].consumer = "explore" /\ Len(runs[r].completed) = 0}

C38_OneExploreRunInFlight ==
    /\ Cardinality(ExploreRunsInFlight) <= 1
    /\ ui.isAnimating <=> ExploreRunsInFlight # {}


(***************************************************************************)
(* C39.  Whatever clicks, resets, regenerations and tab switches happened, *)
(* the explore tab's userPath is non-empty, starts at graphData.startNode, *)
(* repeats no node and steps only between nodes adjacent in graphData; a   *)
(* click arriving while isAnimating is true leaves userPath unchanged.     *)
(***************************************************************************)
UserPathValid ==
    /\ Len(ui.userPath) > 0
    /\ ui.userPath[1] = startNode
    /\ \A i \in 1..Len(ui.userPath), j \in 1..Len(ui.userPath) :
           i # j => ui.userPath[i] # ui.userPath[j]
    /\ \A i \in 1..(Len(ui.userPath) - 1) :
           /\ ui.userPath[i] \in DOMAIN nodes
           /\ ui.userPath[i + 1] \in DOMAIN nodes
           /\ Adjacent(nodes, ui.userPath[i], ui.userPath[i + 1])

ClicksIgnoredWhileAnimating ==
    (ui.isAnimating /\ \E nodeId \in DOMAIN nodes :
                          HandleCanvasClick(nodeId) \/ HandleRaceCanvasClick(nodeId))
        => ui'.userPath = ui.userPath

C39_UserPathValid == []UserPathValid /\ [][ClicksIgnoredWhileAnimating]_vars

====
